---- MODULE Spec2Model ----
(***************************************************************************)
(* A model of the static analysis engine of mcp-code-analyzer:             *)
(*   - PythonAnalyzer / PythonASTVisitor   (src/analyzers/python_analyzer) *)
(*   - BaseAnalyzer                        (src/analyzers/base)            *)
(*   - ProjectStructureAnalyzer, DependencyMapper                          *)
(*                                         (src/analyzers/structure_...)   *)
(*   - PythonDependencyMapper, ImportVisitor                               *)
(*                                         (src/analyzers/dependency_...)  *)
(* Every subsystem has its own variables and its own specification; a      *)
(* specification leaves the variables of the other subsystems untouched.   *)
(***************************************************************************)
EXTENDS Integers, Sequences, FiniteSets, TLC

VARIABLES
    \* --- PythonAnalyzer.analyze -------------------------------------------
    pyFile,      \* the file on disk handed to analyze
    pyResult,    \* what the call produced: idle / returned / raised
    pyPrev,      \* what the analyze call before the latest returned
    pyOps,       \* the I/O and parse steps the call performed, in order
    \* --- DependencyMapper (structure_analyzer.py) --------------------------
    dependency_graph,      \* Dict[str, Set[str]]: keys in insertion order
    reverse_dependencies,  \* Dict[str, Set[str]]
    graphReturn,           \* what the latest call on the mapper returned
    \* --- PythonDependencyMapper (dependency_mapper.py) ---------------------
    depFS,           \* the project's files: path -> what reading and parsing gives
    module_paths,    \* Dict[str, Path]
    dependencies,    \* Dict[str, Set[str]]
    imports,         \* Dict[str, List[ImportInfo]]
    mapReturn,       \* what the latest map_dependencies call returned
    mapOps,          \* the file list of that call and what it did, in order
    \* --- ProjectStructureAnalyzer (structure_analyzer.py) ------------------
    structFS,        \* the filesystem: its entries and the order of listings
    max_depth,       \* self.max_depth
    ignore_patterns, \* self.ignore_patterns
    ignore_arg,      \* the ignore_patterns argument the analyzer was made with
    total_files,     \* self.total_files
    total_size,      \* self.total_size
    file_types,      \* the dict object self.file_types
    language_stats,  \* the dict object self.language_stats
    results,         \* the results the caller holds: the first and the latest
    structReturn,    \* how the latest analyze call ended
    largestReturn,   \* what the latest direct _find_largest_files call returned
    \* --- AnalyzerFactory (analyzer_factory.py) -----------------------------
    _analyzers,      \* self._analyzers
    factoryReturn,   \* what the latest get_analyzer call returned
    \* --- PythonDependencyMapper._resolve_import on its own -----------------
    resolveArgs,     \* the arguments of the call
    resolveReturn,   \* what the call returned
    \* --- PythonASTVisitor.visit, node by node ------------------------------
    walkTree,        \* the syntax tree being walked
    walkVisitor,     \* the visitor object
    walkPos          \* the next node to visit; Len + 1 when the walk has ended

pyVars == <<pyFile, pyResult, pyPrev, pyOps>>

graphVars == <<dependency_graph, reverse_dependencies, graphReturn>>

depVars == <<depFS, module_paths, dependencies, imports, mapReturn, mapOps>>

structVars ==
    <<structFS, max_depth, ignore_patterns, ignore_arg, total_files, total_size, file_types,
      language_stats, results, structReturn, largestReturn>>

factoryVars == <<_analyzers, factoryReturn>>

resolveVars == <<resolveArgs, resolveReturn>>

walkVars == <<walkTree, walkVisitor, walkPos>>

vars == <<pyVars, graphVars, depVars, structVars, factoryVars, resolveVars, walkVars>>

(***************************************************************************)
(* Bounds of the model.                                                    *)
(***************************************************************************)
MaxTextLen == 2
MaxAstNodes == 2
MaxItems == 2
MaxNodes == 3
MaxEdges == 4
MaxStmts == 1
MaxFsDepth == 2
MaxN == 2
MaxAnalyzers == 3
MaxLevel == 4

(***************************************************************************)
(* Generic helpers.                                                        *)
(***************************************************************************)
Range(s) == {s[i] : i \in DOMAIN s}

Last(s) == s[Len(s)]

RECURSIVE SumSeq(_)
SumSeq(s) == IF s = <<>> THEN 0 ELSE Head(s) + SumSeq(Tail(s))

\* sys.stdlib_module_names, as far as the names of the model go
StdlibModules == {"os", "sys"}

\* The order of str on the first segments the model uses (for sorted()).
StrOrder == <<"a", "b", "numpy", "os", "pkg", "requests", "sys", "x">>

StrRank(x) == CHOOSE i \in DOMAIN StrOrder : StrOrder[i] = x

\* All sequences over S of length at most n.
RECURSIVE SeqsUpTo(_, _)
SeqsUpTo(S, n) ==
    IF n = 0 THEN {<<>>}
    ELSE LET shorter == SeqsUpTo(S, n - 1)
         IN  shorter \cup {Append(s, x) : s \in {t \in shorter : Len(t) = n - 1}, x \in S}

(***************************************************************************)
(* BaseAnalyzer (src/analyzers/base.py).                                   *)
(***************************************************************************)
DefaultMaxFileSizeMb == 10

\* BaseAnalyzer.__init__: self.max_file_size_bytes = max_file_size_mb * 1024 * 1024
max_file_size_bytes == DefaultMaxFileSizeMb * 1024 * 1024

\* Characters of a decoded text, by what str.splitlines does with them:
\* "x" is any character that is no line boundary, "LF" is "\n" (read_text's
\* universal newlines have already turned "\r\n" and "\r" into it) and "FF"
\* stands for the other boundaries of str.splitlines ("\f", "\v", "\x1c",
\* "\x1d", "\x1e", "\x85", U+2028, U+2029), which are ordinary
\* whitespace or string content to the Python tokenizer.  "#" opens a comment.
TextChars == {"x", "LF", "FF", "#"}

LineBoundariesMutant == {"LF"}

\* The characters at which str.splitlines ends a line.
LineBoundaries == {"LF", "FF"}

\* str.splitlines(): the lines of content, without their line ends; a line end
\* at the very end of the text does not open a further (empty) line.
RECURSIVE splitlines(_, _, _)
splitlines(content, i, cur) ==
    IF i > Len(content)
    THEN IF cur = <<>> THEN <<>> ELSE <<cur>>
    ELSE IF content[i] \in LineBoundaries
         THEN <<cur>> \o splitlines(content, i + 1, <<>>)
         ELSE splitlines(content, i + 1, Append(cur, content[i]))

\* BaseAnalyzer._count_lines
_count_lines(content) == Len(splitlines(content, 1, <<>>))

_check_file_size_mutant(f) ==
    IF ~f.exists THEN FALSE ELSE f.size <= max_file_size_bytes + 1

\* BaseAnalyzer._check_file_size: stat() raising (no such file) gives False.
_check_file_size(f) ==
    IF ~f.exists THEN FALSE ELSE f.size <= max_file_size_bytes

\* BaseAnalyzer._detect_encoding: chardet's answer, or utf-8.
_detect_encoding(f) == f.encoding

(***************************************************************************)
(* The syntax tree ast.parse returns.  A tree is the sequence of its nodes *)
(* below the Module node, in source (pre-)order; node i names its parent   *)
(* by index (0 is the Module node), so a parent always precedes its        *)
(* children and lies on the rightmost path of the tree built so far.       *)
(*   n    : the number of items of a With / AsyncWith, the number of       *)
(*          values of a BoolOp, 0 for every other kind                     *)
(*   name : the name of a FunctionDef / AsyncFunctionDef / ClassDef        *)
(*   imp  : of an Import the dotted names of its aliases; of an ImportFrom *)
(*          its level, its module (<<>> for None) and the imported names   *)
(***************************************************************************)
BodyKinds ==
    {"FunctionDef", "AsyncFunctionDef", "ClassDef", "If", "While", "For",
     "AsyncFor", "With", "AsyncWith", "Try", "ExceptHandler"}

NodeKinds == BodyKinds \cup {"BoolOp", "Expr", "Import", "ImportFrom"}

NoImport == [level |-> 0, module |-> <<>>, names |-> <<>>]

Node(kind, parent, n, name, imp) ==
    [kind |-> kind, parent |-> parent, n |-> n, name |-> name, imp |-> imp]

RECURSIVE Ancestors(_, _)
Ancestors(tree, i) ==
    IF i = 0 \/ tree[i].parent = 0 THEN {}
    ELSE {tree[i].parent} \cup Ancestors(tree, tree[i].parent)

\* ast.walk(node): the node itself and every node below it.
Walk(tree, i) == {i} \cup {j \in DOMAIN tree : i \in Ancestors(tree, j)}

\* The nodes a further node can hang under: the Module node, or a node with a
\* body on the rightmost path.
OpenParents(tree) ==
    {0} \cup (IF tree = <<>> THEN {}
              ELSE {p \in {Len(tree)} \cup Ancestors(tree, Len(tree)) :
                       tree[p].kind \in BodyKinds})

\* The import statements of the model:
\*   import requests / import os, numpy.linalg / import requests, numpy
\*   from numpy.linalg import x / from . import b / from .requests import x
ImportShapes ==
    {[level |-> 0, module |-> <<>>, names |-> <<<<"requests">>>>],
     [level |-> 0, module |-> <<>>, names |-> <<<<"os">>, <<"numpy", "linalg">>>>],
     [level |-> 0, module |-> <<>>, names |-> <<<<"requests">>, <<"numpy">>>>]}

ImportFromShapes ==
    {[level |-> 0, module |-> <<"numpy", "linalg">>, names |-> <<<<"x">>>>],
     [level |-> 1, module |-> <<>>, names |-> <<<<"b">>>>],
     [level |-> 1, module |-> <<"requests">>, names |-> <<<<"x">>>>]}

NodeShapes(kind) ==
    CASE kind \in {"With", "AsyncWith"} ->
             {[n |-> k, name |-> "", imp |-> NoImport] : k \in 1..MaxItems}
      [] kind = "BoolOp" -> {[n |-> k + 1, name |-> "", imp |-> NoImport] : k \in 1..MaxItems}
      [] kind \in {"FunctionDef", "AsyncFunctionDef"} ->
             {[n |-> 0, name |-> "f", imp |-> NoImport]}
      [] kind = "ClassDef" -> {[n |-> 0, name |-> "A", imp |-> NoImport]}
      [] kind = "Import" -> {[n |-> 0, name |-> "", imp |-> sh] : sh \in ImportShapes}
      [] kind = "ImportFrom" -> {[n |-> 0, name |-> "", imp |-> sh] : sh \in ImportFromShapes}
      [] OTHER -> {[n |-> 0, name |-> "", imp |-> NoImport]}

\* One more node at the end of the tree: an except clause belongs to a try
\* statement, everything else can stand wherever a statement or expression can.
Extensions(tree, kinds) ==
    UNION {{Append(tree, Node(kp[1], kp[2], sh.n, sh.name, sh.imp)) : sh \in NodeShapes(kp[1])} :
           kp \in {kq \in kinds \X OpenParents(tree) :
                      (kq[1] = "ExceptHandler") =>
                          (kq[2] # 0 /\ tree[kq[2]].kind = "Try")}}

RECURSIVE TreesUpTo(_, _)
TreesUpTo(kinds, n) ==
    IF n = 0 THEN {<<>>}
    ELSE LET smaller == TreesUpTo(kinds, n - 1)
         IN  smaller \cup
             UNION {Extensions(t, kinds) : t \in {s \in smaller : Len(s) = n - 1}}

(***************************************************************************)
(* PythonASTVisitor (src/analyzers/python_analyzer.py).                    *)
(***************************************************************************)
NoClass == "None"

_calculate_function_complexity_mutant(tree, i) ==
    Cardinality({j \in Walk(tree, i) :
                    tree[j].kind \in {"If", "While", "For", "ExceptHandler"}})

\* PythonASTVisitor._calculate_function_complexity
_calculate_function_complexity(tree, i) ==
    1 + Cardinality({j \in Walk(tree, i) : tree[j].kind \in {"If", "While", "For"}})
      + Cardinality({j \in Walk(tree, i) : tree[j].kind = "ExceptHandler"})

\* The state of the visitor after __init__.
VisitorInit ==
    [imports |-> <<>>, functions |-> <<>>, classes |-> <<>>, dependencies |-> {},
     current_class |-> NoClass, lines_of_code |-> 0, comment_lines |-> 0,
     blank_lines |-> 0, open |-> <<>>]

\* Leaving a class body: visit_ClassDef puts old_class back.  open holds the
\* ClassDef activations that have not returned yet, innermost last.
RECURSIVE LeaveClasses(_, _, _)
LeaveClasses(tree, v, i) ==
    IF v.open = <<>> THEN v
    ELSE LET top == Last(v.open)
         IN  IF i # 0 /\ top.node \in Ancestors(tree, i) THEN v
             ELSE LeaveClasses(tree,
                               [v EXCEPT !.current_class = top.old_class,
                                         !.open = SubSeq(v.open, 1, Len(v.open) - 1)],
                               i)

\* PythonASTVisitor.visit_Import: one record per alias; a dotted name is the
\* sequence of its segments, the line is the position of the node.
PythonASTVisitor_visit_Import(tree, v, i) ==
    LET names == tree[i].imp.names
    IN  [v EXCEPT !.imports = @ \o [k \in DOMAIN names |->
                                       [module |-> [dots |-> 0, name |-> names[k]],
                                        name |-> <<>>, line |-> i, type |-> "import"]],
                  !.dependencies = @ \cup {names[k][1] : k \in DOMAIN names}]

\* PythonASTVisitor.visit_ImportFrom: "module" is '.' * level + (module or '')
PythonASTVisitor_visit_ImportFrom(tree, v, i) ==
    LET names == tree[i].imp.names
        module == tree[i].imp.module
    IN  [v EXCEPT !.imports = @ \o [k \in DOMAIN names |->
                                       [module |-> [dots |-> tree[i].imp.level, name |-> module],
                                        name |-> names[k], line |-> i,
                                        type |-> "from_import"]],
                  !.dependencies = IF module # <<>> /\ names # <<>>
                                   THEN @ \cup {module[1]} ELSE @]

\* sorted(q) for a list of str
RECURSIVE sorted_list(_)
sorted_list(q) ==
    IF q = <<>> THEN <<>>
    ELSE LET rest == sorted_list(Tail(q))
             before == SelectSeq(rest, LAMBDA x : StrRank(x) < StrRank(Head(q)))
             after == SelectSeq(rest, LAMBDA x : StrRank(x) >= StrRank(Head(q)))
         IN  before \o <<Head(q)>> \o after

\* list(S) for a set of str: its elements as the set happens to iterate them;
\* set_order is the order in which the strings come up in this process.
list(S, set_order) == SelectSeq(set_order, LAMBDA x : x \in S)

get_dependencies_mutant(v, set_order) ==
    list(v.dependencies \ StdlibModules, set_order)

\* PythonASTVisitor.get_dependencies
get_dependencies(v, set_order) ==
    sorted_list(list(v.dependencies \ StdlibModules, set_order))

\* PythonASTVisitor.visit_FunctionDef / visit_AsyncFunctionDef
visit_FunctionDef(tree, v, i, is_async) ==
    [v EXCEPT !.functions =
        Append(@, [name |-> tree[i].name,
                   is_async |-> is_async,
                   parent_class |-> v.current_class,
                   complexity |-> _calculate_function_complexity(tree, i)])]

visit_ClassDef_mutant(tree, v, i) ==
    [v EXCEPT !.classes = Append(@, [name |-> tree[i].name, methods |-> <<>>]),
              !.open = Append(@, [node |-> i, old_class |-> NoClass]),
              !.current_class = tree[i].name]

\* PythonASTVisitor.visit_ClassDef, up to its generic_visit
visit_ClassDef(tree, v, i) ==
    [v EXCEPT !.classes =
                  Append(@, [name |-> tree[i].name,
                             methods |->
                                 LET body == SelectSeq([k \in DOMAIN tree |-> k],
                                         LAMBDA k : /\ tree[k].parent = i
                                                    /\ tree[k].kind \in
                                                          {"FunctionDef", "AsyncFunctionDef"})
                                 IN  [k \in DOMAIN body |-> tree[body[k]].name]]),
              !.open = Append(@, [node |-> i, old_class |-> v.current_class]),
              !.current_class = tree[i].name]

\* NodeVisitor.visit for the node i: the visit_<classname> method, up to its
\* generic_visit.
visit_node(tree, w, i) ==
    LET kind == tree[i].kind
    IN  CASE kind = "FunctionDef" -> visit_FunctionDef(tree, w, i, FALSE)
          [] kind = "AsyncFunctionDef" -> visit_FunctionDef(tree, w, i, TRUE)
          [] kind = "ClassDef" -> visit_ClassDef(tree, w, i)
          [] kind = "Import" -> PythonASTVisitor_visit_Import(tree, w, i)
          [] kind = "ImportFrom" -> PythonASTVisitor_visit_ImportFrom(tree, w, i)
          [] OTHER -> w

\* NodeVisitor.visit on the nodes i, i+1, ... of the tree, in source order.
RECURSIVE visit(_, _, _)
visit(tree, v, i) ==
    IF i > Len(tree) THEN LeaveClasses(tree, v, 0)
    ELSE visit(tree, visit_node(tree, LeaveClasses(tree, v, i), i), i + 1)

(***************************************************************************)
(* PythonAnalyzer (src/analyzers/python_analyzer.py).                      *)
(***************************************************************************)
_calculate_cyclomatic_complexity_mutant(tree) ==
    1 + Cardinality({j \in DOMAIN tree : tree[j].kind \in {"If", "While", "For"}})
      + Cardinality({j \in DOMAIN tree : tree[j].kind = "ExceptHandler"})
      + SumSeq([j \in DOMAIN tree |->
                    IF tree[j].kind \in {"With", "AsyncWith"} THEN tree[j].n ELSE 0])
      + SumSeq([j \in DOMAIN tree |->
                    IF tree[j].kind = "BoolOp" THEN tree[j].n - 1 ELSE 0])

\* PythonAnalyzer._calculate_cyclomatic_complexity
_calculate_cyclomatic_complexity(tree) ==
    1 + Cardinality({j \in DOMAIN tree : tree[j].kind \in {"If", "While", "For"}})
      + Cardinality({j \in DOMAIN tree : tree[j].kind = "ExceptHandler"})
      + SumSeq([j \in DOMAIN tree |->
                    IF tree[j].kind = "With" THEN tree[j].n ELSE 0])
      + SumSeq([j \in DOMAIN tree |->
                    IF tree[j].kind = "BoolOp" THEN tree[j].n - 1 ELSE 0])

\* PythonAnalyzer._calculate_complexity
_calculate_complexity(tree, v) ==
    [cyclomatic_complexity |-> _calculate_cyclomatic_complexity(tree),
     cognitive_complexity |-> 0,
     maintainability_index |-> 0,
     lines_of_code |-> v.lines_of_code,
     comment_lines |-> v.comment_lines]

NoMetrics == [k \in {} |-> 0]

NoFileInfo == [size_bytes |-> 0, line_count |-> 0, encoding |-> "", language |-> ""]

\* AnalysisResult with the defaults of __post_init__.
AnalysisResult(file_info) ==
    [status |-> "returned", error |-> "", file_info |-> file_info,
     imports |-> <<>>, functions |-> <<>>, classes |-> <<>>, dependencies |-> <<>>,
     complexity_metrics |-> NoMetrics, errors |-> <<>>]

Raised(error) == [AnalysisResult(NoFileInfo) EXCEPT !.status = "raised", !.error = error]

Idle == [AnalysisResult(NoFileInfo) EXCEPT !.status = "idle"]

analyze_except_SyntaxError_mutant(f) ==
    [AnalysisResult([size_bytes |-> f.size, line_count |-> _count_lines(f.text),
                     encoding |-> "utf-8", language |-> "python"])
       EXCEPT !.errors = <<[type |-> "SyntaxError",
                            message |-> f.syntax_error.msg,
                            line |-> f.syntax_error.lineno,
                            offset |-> f.syntax_error.lineno]>>]

\* PythonAnalyzer.analyze, the except SyntaxError clause: the exception becomes
\* an entry of the result's errors.
analyze_except_SyntaxError(f) ==
    [AnalysisResult([size_bytes |-> f.size, line_count |-> 0,
                     encoding |-> "utf-8", language |-> "python"])
       EXCEPT !.errors = <<[type |-> "SyntaxError",
                            message |-> f.syntax_error.msg,
                            line |-> f.syntax_error.lineno,
                            offset |-> f.syntax_error.offset]>>]

\* PythonAnalyzer.analyze: the result, and the steps taken on the way.
analyze(f, set_order) ==
    IF ~_check_file_size(f)
    THEN [result |-> Raised("ValueError: File too large"), ops |-> <<"stat">>]
    ELSE IF ~f.decodable
    THEN [result |-> Raised("UnicodeDecodeError"),
          ops |-> <<"stat", "detect_encoding", "read_text">>]
    ELSE LET encoding == _detect_encoding(f)
             content == f.text
             file_info == [size_bytes |-> f.size,
                           line_count |-> _count_lines(content),
                           encoding |-> encoding,
                           language |-> "python"]
         IN  IF ~f.parses
             THEN [result |-> analyze_except_SyntaxError(f),
                   ops |-> <<"stat", "detect_encoding", "read_text", "stat", "parse",
                             "exists", "stat">>]
             ELSE LET tree == f.tree
                      visitor == visit(tree, VisitorInit, 1)
                  IN  [result |->
                           [AnalysisResult(file_info)
                              EXCEPT !.imports = visitor.imports,
                                     !.functions = visitor.functions,
                                     !.classes = visitor.classes,
                                     !.dependencies = get_dependencies(visitor, set_order),
                                     !.complexity_metrics =
                                         _calculate_complexity(tree, visitor)],
                       ops |-> <<"stat", "detect_encoding", "read_text", "stat", "parse",
                                 "visit">>]

(***************************************************************************)
(* DependencyMapper (src/analyzers/structure_analyzer.py).                 *)
(* A dict is a record of its keys, in insertion order, and its values.     *)
(***************************************************************************)
NodeNames == <<"pkg.a", "pkg.b", "pkg.c", "pkg.d", "pkg.e">>

Nodes == {NodeNames[i] : i \in 1..MaxNodes}

EmptyDict == [keys |-> <<>>, val |-> [n \in Nodes |-> {}]]

\* d[key].add(item), after d[key] = set() for a key the dict does not hold.
DictAdd(d, key, item) ==
    [keys |-> IF key \in Range(d.keys) THEN d.keys ELSE Append(d.keys, key),
     val |-> [d.val EXCEPT ![key] = @ \cup {item}]]

\* dict.get(key, []) / dict.get(key, set())
DictGet(d, key) == IF key \in Range(d.keys) THEN d.val[key] ELSE {}

Edges(d) == {e \in Nodes \X Nodes : e[2] \in DictGet(d, e[1])}

\* DependencyMapper.__init__
GraphInit ==
    /\ dependency_graph = EmptyDict
    /\ reverse_dependencies = EmptyDict
    /\ graphReturn = [status |-> "none", cycles |-> <<>>]

\* The orders in which the sets of a graph can be iterated: a set of str has
\* no order of its own, every enumeration of its elements can come up.
Enumerations(S) ==
    {q \in [1..Cardinality(S) -> S] : \A i, j \in DOMAIN q : i # j => q[i] # q[j]}

IterationOrders(d) ==
    LET enums == [n \in Nodes |-> Enumerations(DictGet(d, n))]
    IN  {o \in [Nodes -> UNION {enums[n] : n \in Nodes}] :
            \A n \in Nodes : o[n] \in enums[n]}

\* list.index(x): the first position of x, or 0 where Python raises ValueError.
Index(path, x) ==
    IF x \in Range(path) THEN CHOOSE i \in DOMAIN path :
                                  path[i] = x /\ \A j \in 1..(i - 1) : path[j] # x
    ELSE 0

\* The traversal state: the visited set and the cycles list shared by the
\* nested function, and whether an exception is propagating.
RECURSIVE _find_cycles(_, _, _, _)
RECURSIVE _find_cycles_for(_, _, _, _, _)

\* The nested function _find_cycles(node, path) of find_circular_dependencies;
\* path is this activation's own list (the caller passes a copy).
_find_cycles(order, node, path, st) ==
    _find_cycles_for(order, node, Append(path, node), 1,
                     [st EXCEPT !.visited = @ \cup {node}])

_cycle_found_mutant(path, neighbor, st) ==
    IF neighbor \notin Range(path)
    THEN [st EXCEPT !.raised = TRUE]
    ELSE [st EXCEPT !.cycles = Append(@, SubSeq(path, Index(path, neighbor), Len(path)))]

\* The else branch of the loop: path.index(neighbor) raises ValueError when
\* the visited neighbor is not on this activation's path.
_cycle_found(path, neighbor, st) ==
    IF neighbor \notin Range(path)
    THEN [st EXCEPT !.raised = TRUE]
    ELSE [st EXCEPT !.cycles =
              Append(@, SubSeq(path, Index(path, neighbor), Len(path)) \o <<neighbor>>)]

\* The loop over the neighbours of node, from the k-th on.
_find_cycles_for(order, node, path, k, st) ==
    IF st.raised \/ k > Len(order[node]) THEN st
    ELSE LET neighbor == order[node][k]
         IN  _find_cycles_for(order, node, path, k + 1,
                 IF neighbor \notin st.visited
                 THEN _find_cycles(order, neighbor, path, st)
                 ELSE _cycle_found(path, neighbor, st))

\* The loop over the keys of dependency_graph, from the k-th on.
RECURSIVE _find_from_keys(_, _, _, _)
_find_from_keys(keys, order, k, st) ==
    IF st.raised \/ k > Len(keys) THEN st
    ELSE _find_from_keys(keys, order, k + 1,
             IF keys[k] \notin st.visited
             THEN _find_cycles(order, keys[k], <<>>, st)
             ELSE st)

\* DependencyMapper.find_circular_dependencies
find_circular_dependencies(d, order) ==
    LET st == _find_from_keys(d.keys, order, 1,
                              [visited |-> {}, cycles |-> <<>>, raised |-> FALSE])
    IN  IF st.raised
        THEN [status |-> "raised", cycles |-> <<>>]
        ELSE [status |-> "returned", cycles |-> st.cycles]

\* DependencyMapper.add_dependency
add_dependency(from_file, to_file) ==
    /\ Cardinality(Edges(dependency_graph) \cup {<<from_file, to_file>>}) <= MaxEdges
    /\ dependency_graph' = DictAdd(dependency_graph, from_file, to_file)
    /\ reverse_dependencies' = DictAdd(reverse_dependencies, to_file, from_file)
    /\ graphReturn' = [status |-> "none", cycles |-> <<>>]
    /\ UNCHANGED <<pyVars, depVars, structVars, factoryVars, resolveVars, walkVars>>

FindCircularDependencies ==
    /\ \E order \in IterationOrders(dependency_graph) :
           graphReturn' = find_circular_dependencies(dependency_graph, order)
    /\ UNCHANGED <<dependency_graph, reverse_dependencies, pyVars, depVars, structVars, factoryVars, resolveVars, walkVars>>

(***************************************************************************)
(* PythonDependencyMapper (src/analyzers/dependency_mapper.py).            *)
(*                                                                         *)
(* A str that holds a dotted name is the non-empty sequence of its         *)
(* dot-free segments: "pkg.a" is <<"pkg", "a">> and "" is <<"">>, which is *)
(* what "".split(".") gives.  <<>> is no str and stands for None.          *)
(* A Path is its directory parts below (or outside) project_root, its stem *)
(* and its suffix.  A dict is a function on its keys.                      *)
(***************************************************************************)
None == <<>>

EmptyStr == <<"">>

\* str.split(".")
Split(name) == name

\* ".".join(parts)
Join(parts) == IF parts = <<>> THEN EmptyStr ELSE parts

\* s.startswith(t + "."), for dotted names s and t
StartsWithDotted(s, t) ==
    /\ Len(s) > Len(t)
    /\ SubSeq(s, 1, Len(t)) = t

\* bool(s) of an Optional[str]
Truthy(s) == s # None /\ s # EmptyStr

Path(dirs, stem, suffix, in_root) ==
    [dirs |-> dirs, stem |-> stem, suffix |-> suffix, in_root |-> in_root]

DictSet(d, k, v) == [x \in DOMAIN d \cup {k} |-> IF x = k THEN v ELSE d[x]]

EmptyMap == [x \in {} |-> {}]

\* sorted(list(S)) for a set of str
RECURSIVE Sorted(_)
Sorted(S) ==
    IF S = {} THEN <<>>
    ELSE LET least == CHOOSE x \in S : \A y \in S : StrRank(x) <= StrRank(y)
         IN  <<least>> \o Sorted(S \ {least})

_path_to_module_mutant(path) ==
    IF path.in_root THEN Join(path.dirs \o <<path.stem>>) ELSE <<path.stem>>

\* PythonDependencyMapper._path_to_module
_path_to_module(path) ==
    IF path.in_root
    THEN LET parts == path.dirs \o <<path.stem>>
         IN  Join(IF Last(parts) = "__init__"
                  THEN SubSeq(parts, 1, Len(parts) - 1)
                  ELSE parts)
    ELSE <<path.stem>>

_resolve_import_absolute_mutant(known, module_name) ==
    IF \E known_module \in DOMAIN known :
           known_module = module_name \/ StartsWithDotted(known_module, module_name)
    THEN module_name
    ELSE LET parts == Split(module_name)
             hits == {i \in 1..Len(parts) : Join(SubSeq(parts, 1, i)) \in DOMAIN known}
         IN  IF hits = {} THEN None
             ELSE Join(SubSeq(parts, 1, CHOOSE i \in hits : \A j \in hits : i <= j))

\* The else branch of PythonDependencyMapper._resolve_import (an absolute
\* import): the loop over self.module_paths, then range(len(parts), 0, -1),
\* which tries the longest prefix first.
_resolve_import_absolute(known, module_name) ==
    IF \E known_module \in DOMAIN known :
           known_module = module_name \/ StartsWithDotted(known_module, module_name)
    THEN module_name
    ELSE LET parts == Split(module_name)
             hits == {i \in 1..Len(parts) : Join(SubSeq(parts, 1, i)) \in DOMAIN known}
         IN  IF hits = {} THEN None
             ELSE Join(SubSeq(parts, 1, CHOOSE i \in hits : \A j \in hits : j <= i))

_resolve_import_mutant(known, module_name, from_file, is_relative, level) ==
    IF level >= Len(Split(_path_to_module(from_file))) THEN None
    ELSE Join(SubSeq(Split(_path_to_module(from_file)), 1,
                     Len(Split(_path_to_module(from_file))) - level)
              \o (IF module_name # EmptyStr THEN Split(module_name) ELSE <<>>))

\* PythonDependencyMapper._resolve_import; known is self.module_paths
_resolve_import(known, module_name, from_file, is_relative, level) ==
    IF is_relative
    THEN LET current_module == _path_to_module(from_file)
             current_parts == Split(current_module)
         IN  IF level > Len(current_parts) THEN None
             ELSE LET base_parts ==
                          IF level > 0
                          THEN SubSeq(current_parts, 1, Len(current_parts) - level)
                          ELSE SubSeq(current_parts, 1, Len(current_parts) - 1)
                  IN  IF module_name # EmptyStr
                      THEN Join(base_parts \o Split(module_name))
                      ELSE Join(base_parts)
    ELSE _resolve_import_absolute(known, module_name)

\* ImportVisitor.visit_Import: one ImportInfo per alias
visit_Import(file_path, stmt) ==
    [k \in DOMAIN stmt.aliases |->
        [from_file |-> file_path, import_type |-> "import",
         module |-> stmt.aliases[k], names |-> <<stmt.aliases[k]>>,
         line_number |-> stmt.line, is_relative |-> FALSE, level |-> 0]]

\* ImportVisitor.visit_ImportFrom
visit_ImportFrom(file_path, stmt) ==
    <<[from_file |-> file_path, import_type |-> "from_import",
       module |-> IF stmt.module = None THEN EmptyStr ELSE stmt.module,
       names |-> stmt.names,
       line_number |-> stmt.line, is_relative |-> stmt.level > 0, level |-> stmt.level]>>

\* ImportVisitor.visit over the import statements of a tree, in source order
RECURSIVE ImportVisitor(_, _)
ImportVisitor(file_path, stmts) ==
    IF stmts = <<>> THEN <<>>
    ELSE (IF Head(stmts).type = "import"
          THEN visit_Import(file_path, Head(stmts))
          ELSE visit_ImportFrom(file_path, Head(stmts)))
         \o ImportVisitor(file_path, Tail(stmts))

\* The loop of _analyze_file_imports over visitor.imports: the set of resolved
\* modules that are keys of module_paths.
ResolvedDependencies(known, file_path, infos) ==
    {r \in {_resolve_import(known, infos[k].module, file_path,
                            infos[k].is_relative, infos[k].level) : k \in DOMAIN infos} :
        Truthy(r) /\ r \in DOMAIN known}

\* PythonDependencyMapper._analyze_file_imports, on the mapper state m: a file
\* that cannot be read or parsed is logged and leaves m as it is.
_analyze_file_imports(m, fs, file_path) ==
    IF ~fs[file_path].parses THEN m
    ELSE LET module_name == _path_to_module(file_path)
             infos == ImportVisitor(file_path, fs[file_path].stmts)
         IN  [m EXCEPT
                 !.dependencies = DictSet(@, module_name,
                     ResolvedDependencies(m.module_paths, file_path, infos)),
                 !.imports = DictSet(@, module_name, infos),
                 !.ops = @ \o [k \in DOMAIN infos |->
                                  [op |-> "_resolve_import", file |-> file_path,
                                   module_paths |-> m.module_paths]]]

\* PythonDependencyMapper._is_stdlib_module
_is_stdlib_module(module) == module \in StdlibModules

_get_external_dependencies_mutant(m) ==
    LET all == UNION {Range(m.imports[k]) : k \in DOMAIN m.imports}
        external ==
            {Split(info.module)[1] : info \in
                {i \in all :
                    /\ ~i.is_relative
                    /\ ~Truthy(_resolve_import(m.module_paths, i.module, i.from_file, FALSE, 0))}}
    IN  Sorted(external)

\* PythonDependencyMapper._get_external_dependencies
_get_external_dependencies(m) ==
    LET all == UNION {Range(m.imports[k]) : k \in DOMAIN m.imports}
        external ==
            {Split(info.module)[1] : info \in
                {i \in all :
                    /\ ~i.is_relative
                    /\ ~Truthy(_resolve_import(m.module_paths, i.module, i.from_file, FALSE, 0))
                    /\ ~_is_stdlib_module(Split(i.module)[1])}}
    IN  Sorted(external)

\* PythonDependencyMapper._serialize_imports
_serialize_imports(m) ==
    [k \in DOMAIN m.imports |->
        [j \in DOMAIN m.imports[k] |->
            [type |-> m.imports[k][j].import_type,
             module |-> m.imports[k][j].module,
             names |-> m.imports[k][j].names,
             line |-> m.imports[k][j].line_number,
             is_relative |-> m.imports[k][j].is_relative,
             level |-> m.imports[k][j].level]]]

\* The first pass of map_dependencies over files, from the k-th on.
RECURSIVE FirstPass(_, _, _)
FirstPass(m, files, k) ==
    IF k > Len(files) THEN m
    ELSE FirstPass(IF files[k].suffix = ".py"
                   THEN [m EXCEPT !.module_paths =
                            DictSet(@, _path_to_module(files[k]), files[k]),
                                  !.ops = Append(@, [op |-> "module_paths", file |-> files[k],
                                                     module_paths |-> m.module_paths])]
                   ELSE m,
                   files, k + 1)

\* The second pass of map_dependencies over files, from the k-th on.
RECURSIVE SecondPass(_, _, _, _)
SecondPass(m, fs, files, k) ==
    IF k > Len(files) THEN m
    ELSE SecondPass(IF files[k].suffix = ".py"
                    THEN _analyze_file_imports(m, fs, files[k])
                    ELSE m,
                    fs, files, k + 1)

\* One pass that indexes and analyzes file by file.
RECURSIVE SinglePass(_, _, _, _)
SinglePass(m, fs, files, k) ==
    IF k > Len(files) THEN m
    ELSE SinglePass(SecondPass(FirstPass(m, <<files[k]>>, 1), fs, <<files[k]>>, 1),
                    fs, files, k + 1)

map_dependencies_mutant(m, fs, files) ==
    LET m2 == SinglePass(m, fs, files, 1)
    IN  [state |-> m2,
         return |-> [called |-> TRUE,
                     dependencies |-> m2.dependencies,
                     imports |-> _serialize_imports(m2),
                     module_paths |-> m2.module_paths,
                     external_dependencies |-> _get_external_dependencies(m2)]]

\* PythonDependencyMapper.map_dependencies: the mapper state it leaves and the
\* dict it returns (a list made of a set is kept as the set: it has no order).
map_dependencies(m, fs, files) ==
    LET m2 == SecondPass(FirstPass(m, files, 1), fs, files, 1)
    IN  [state |-> m2,
         return |-> [called |-> TRUE,
                     dependencies |-> m2.dependencies,
                     imports |-> _serialize_imports(m2),
                     module_paths |-> m2.module_paths,
                     external_dependencies |-> _get_external_dependencies(m2)]]

NoReturn ==
    [called |-> FALSE, dependencies |-> EmptyMap, imports |-> EmptyMap,
     module_paths |-> EmptyMap, external_dependencies |-> <<>>]

NoOps == [files |-> <<>>, log |-> <<>>]

\* PythonDependencyMapper.__init__
MapperInit ==
    /\ module_paths = EmptyMap
    /\ dependencies = EmptyMap
    /\ imports = EmptyMap
    /\ mapReturn = NoReturn
    /\ mapOps = NoOps

(***************************************************************************)
(* The project map_dependencies is run on: the files below project_root    *)
(* and, for each, what read_text and ast.parse give: a SyntaxError or the  *)
(* import statements of the tree in source order.                          *)
(***************************************************************************)
PkgInit == Path(<<"pkg">>, "__init__", ".py", TRUE)

PkgA == Path(<<"pkg">>, "a", ".py", TRUE)

PkgB == Path(<<"pkg">>, "b", ".py", TRUE)

Notes == Path(<<"pkg">>, "notes", ".txt", TRUE)

PyPaths == <<PkgInit, PkgA, PkgB>>

DepPaths == Range(PyPaths) \cup {Notes}

ImportStmt(aliases) ==
    [type |-> "import", aliases |-> aliases, module |-> None, names |-> <<>>,
     level |-> 0, line |-> 0]

ImportFromStmt(level, module, names) ==
    [type |-> "from_import", aliases |-> <<>>, module |-> module, names |-> names,
     level |-> level, line |-> 0]

Stmts ==
    {ImportFromStmt(1, None, <<"b">>),                \* from . import b
     ImportFromStmt(1, <<"a">>, <<"x">>),            \* from .a import x
     ImportFromStmt(2, <<"pkg">>, <<"a">>),          \* from ..pkg import a
     ImportFromStmt(0, <<"pkg">>, <<"a">>),          \* from pkg import a
     ImportStmt(<<<<"pkg", "b">>>>),                  \* import pkg.b
     ImportStmt(<<<<"pkg", "b", "x">>>>),             \* import pkg.b.x
     ImportStmt(<<<<"os">>, <<"requests">>>>),        \* import os, requests
     ImportStmt(<<<<"numpy", "linalg">>>>),           \* import numpy.linalg
     ImportStmt(<<<<"requests", "x">>, <<"numpy">>, <<"requests">>>>)}
                                            \* import requests.x, numpy, requests

\* The statements of a file, each on the line of its position.
StmtSeqs(k) ==
    {[i \in 1..k |-> [q[i] EXCEPT !.line = i]] : q \in [1..k -> Stmts]}

Unparsable == [parses |-> FALSE, stmts |-> <<>>]

Contents(k) == {[parses |-> TRUE, stmts |-> q] : q \in StmtSeqs(k)}

\* Every assignment of contents to the paths[i..], with at most budget import
\* statements in all.
RECURSIVE Projects(_, _, _)
Projects(paths, i, budget) ==
    IF i > Len(paths) THEN {[p \in {Notes} |-> Unparsable]}
    ELSE UNION {
            {DictSet(rest, paths[i], c) :
                c \in Contents(k) \cup (IF k = 0 THEN {Unparsable} ELSE {}),
                rest \in Projects(paths, i + 1, budget - k)} :
            k \in 0..budget}

DepIdle ==
    /\ depFS = [p \in DepPaths |-> Unparsable]
    /\ MapperInit

(***************************************************************************)
(* _resolve_import called on its own.                                      *)
(***************************************************************************)
NoResolveArgs ==
    [module_paths |-> EmptyMap, module_name |-> EmptyStr, from_file |-> PkgInit,
     is_relative |-> TRUE, level |-> 0]

ResolveIdle ==
    /\ resolveArgs = NoResolveArgs
    /\ resolveReturn = [called |-> FALSE, resolved |-> None]

(***************************************************************************)
(* Constants of the analyzers (src/analyzers/constants.py).  A file name,  *)
(* an extension and an ignore pattern are str: sequences of characters.    *)
(***************************************************************************)
DEFAULT_IGNORE_PATTERNS ==
    {<<"*", ".", "d", "b">>,
     <<"*", ".", "e", "g", "g", "-", "i", "n", "f", "o">>,
     <<"*", ".", "l", "o", "g">>,
     <<"*", ".", "p", "y", "c">>,
     <<"*", ".", "p", "y", "o">>,
     <<"*", ".", "s", "q", "l", "i", "t", "e">>,
     <<".", "D", "S", "_", "S", "t", "o", "r", "e">>,
     <<".", "c", "o", "v", "e", "r", "a", "g", "e">>,
     <<".", "d", "o", "c", "k", "e", "r", "i", "g", "n", "o", "r", "e">>,
     <<".", "e", "n", "v", "*">>,
     <<".", "g", "i", "t">>,
     <<".", "g", "i", "t", "i", "g", "n", "o", "r", "e">>,
     <<".", "i", "d", "e", "a">>,
     <<".", "m", "y", "p", "y", "_", "c", "a", "c", "h", "e">>,
     <<".", "p", "y", "t", "e", "s", "t", "_", "c", "a", "c", "h", "e">>,
     <<".", "r", "u", "f", "f", "_", "c", "a", "c", "h", "e">>,
     <<".", "t", "o", "x">>,
     <<".", "v", "e", "n", "v">>,
     <<".", "v", "s", "c", "o", "d", "e">>,
     <<"_", "_", "p", "y", "c", "a", "c", "h", "e", "_", "_">>,
     <<"b", "u", "i", "l", "d">>,
     <<"d", "i", "s", "t">>,
     <<"e", "n", "v">>,
     <<"h", "t", "m", "l", "c", "o", "v">>,
     <<"n", "o", "d", "e", "_", "m", "o", "d", "u", "l", "e", "s">>,
     <<"v", "e", "n", "v">>}

LANGUAGE_MAP_ITEMS ==
    {<<<<".", "p", "y">>, "python">>,
     <<<<".", "p", "y", "w">>, "python">>,
     <<<<".", "p", "y", "x">>, "python">>,
     <<<<".", "p", "x", "d">>, "python">>,
     <<<<".", "p", "y", "i">>, "python">>,
     <<<<".", "j", "s">>, "javascript">>,
     <<<<".", "m", "j", "s">>, "javascript">>,
     <<<<".", "j", "s", "x">>, "javascript">>,
     <<<<".", "t", "s">>, "typescript">>,
     <<<<".", "t", "s", "x">>, "typescript">>,
     <<<<".", "j", "a", "v", "a">>, "java">>,
     <<<<".", "s", "c", "a", "l", "a">>, "scala">>,
     <<<<".", "k", "t">>, "kotlin">>,
     <<<<".", "g", "r", "o", "o", "v", "y">>, "groovy">>,
     <<<<".", "c">>, "c">>,
     <<<<".", "h">>, "c">>,
     <<<<".", "c", "p", "p">>, "cpp">>,
     <<<<".", "c", "c">>, "cpp">>,
     <<<<".", "c", "x", "x">>, "cpp">>,
     <<<<".", "h", "p", "p">>, "cpp">>,
     <<<<".", "h", "h">>, "cpp">>,
     <<<<".", "h", "x", "x">>, "cpp">>,
     <<<<".", "g", "o">>, "go">>,
     <<<<".", "r", "s">>, "rust">>,
     <<<<".", "c", "s">>, "csharp">>,
     <<<<".", "r", "b">>, "ruby">>,
     <<<<".", "p", "h", "p">>, "php">>,
     <<<<".", "s", "w", "i", "f", "t">>, "swift">>,
     <<<<".", "r">>, "r">>,
     <<<<".", "R">>, "r">>,
     <<<<".", "m">>, "matlab">>,
     <<<<".", "j", "l">>, "julia">>,
     <<<<".", "l", "u", "a">>, "lua">>,
     <<<<".", "d", "a", "r", "t">>, "dart">>,
     <<<<".", "s", "h">>, "shell">>,
     <<<<".", "b", "a", "s", "h">>, "shell">>,
     <<<<".", "z", "s", "h">>, "shell">>,
     <<<<".", "f", "i", "s", "h">>, "shell">>,
     <<<<".", "p", "s", "1">>, "powershell">>,
     <<<<".", "p", "s", "m", "1">>, "powershell">>,
     <<<<".", "s", "q", "l">>, "sql">>,
     <<<<".", "j", "s", "o", "n">>, "json">>,
     <<<<".", "x", "m", "l">>, "xml">>,
     <<<<".", "y", "a", "m", "l">>, "yaml">>,
     <<<<".", "y", "m", "l">>, "yaml">>,
     <<<<".", "t", "o", "m", "l">>, "toml">>,
     <<<<".", "i", "n", "i">>, "ini">>,
     <<<<".", "c", "f", "g">>, "ini">>,
     <<<<".", "c", "o", "n", "f">>, "conf">>,
     <<<<".", "h", "t", "m", "l">>, "html">>,
     <<<<".", "h", "t", "m">>, "html">>,
     <<<<".", "c", "s", "s">>, "css">>,
     <<<<".", "s", "c", "s", "s">>, "scss">>,
     <<<<".", "s", "a", "s", "s">>, "sass">>,
     <<<<".", "l", "e", "s", "s">>, "less">>,
     <<<<".", "m", "d">>, "markdown">>,
     <<<<".", "r", "s", "t">>, "restructuredtext">>,
     <<<<".", "t", "e", "x">>, "latex">>,
     <<<<".", "a", "d", "o", "c">>, "asciidoc">>}

\* LANGUAGE_MAP.get(extension): the language, or None
NoLanguage == "None"

LANGUAGE_MAP_get(extension) ==
    IF \E item \in LANGUAGE_MAP_ITEMS : item[1] = extension
    THEN (CHOOSE item \in LANGUAGE_MAP_ITEMS : item[1] = extension)[2]
    ELSE NoLanguage

(***************************************************************************)
(* str and PurePath operations on names.                                   *)
(***************************************************************************)
\* s.startswith(t)
StartsWith(s, t) == Len(t) <= Len(s) /\ SubSeq(s, 1, Len(t)) = t

\* s.endswith(t)
EndsWith(s, t) == Len(t) <= Len(s) /\ SubSeq(s, Len(s) - Len(t) + 1, Len(s)) = t

UpperCase == <<"A", "B", "C", "D", "E", "F", "G", "H", "I", "J", "K", "L", "M",
               "N", "O", "P", "Q", "R", "S", "T", "U", "V", "W", "X", "Y", "Z">>

LowerCase == <<"a", "b", "c", "d", "e", "f", "g", "h", "i", "j", "k", "l", "m",
               "n", "o", "p", "q", "r", "s", "t", "u", "v", "w", "x", "y", "z">>

\* str.lower()
lower(s) ==
    [i \in DOMAIN s |->
        IF \E k \in DOMAIN UpperCase : UpperCase[k] = s[i]
        THEN LowerCase[CHOOSE k \in DOMAIN UpperCase : UpperCase[k] = s[i]]
        ELSE s[i]]

\* PurePath.suffix: from the last dot on, unless that dot starts or ends the name
suffix(name) ==
    LET dots == {i \in DOMAIN name : name[i] = "."}
    IN  IF dots = {} THEN <<>>
        ELSE LET i == CHOOSE k \in dots : \A j \in dots : j <= k
             IN  IF 1 < i /\ i < Len(name) THEN SubSeq(name, i, Len(name)) ELSE <<>>

(***************************************************************************)
(* The filesystem.  A path is the sequence of the names below the          *)
(* project's top directory, <<>>; entries maps every existing path to its  *)
(* kind and size; order is the order in which the operating system lists   *)
(* names (the same in every directory, and for iterdir and rglob alike);   *)
(* denied holds the directories the process may neither list nor search.   *)
(***************************************************************************)
Exists(f, path) == path \in DOMAIN f.entries

is_file(f, path) == Exists(f, path) /\ f.entries[path].kind = "file"

is_dir(f, path) == Exists(f, path) /\ f.entries[path].kind = "dir"

\* Path.iterdir(): the entries of a directory, as listed
iterdir(f, path) ==
    LET present == SelectSeq(f.order, LAMBDA name : Exists(f, Append(path, name)))
    IN  [i \in DOMAIN present |-> Append(path, present[i])]

iterdir_raises_mutant(f, path) == FALSE

\* Path.iterdir() raises PermissionError
iterdir_raises(f, path) == path \in f.denied

\* Path.name ("" for the top directory given as ".")
PathName(path) == IF path = <<>> THEN <<>> ELSE Last(path)

(***************************************************************************)
(* ProjectStructureAnalyzer (src/analyzers/structure_analyzer.py).         *)
(***************************************************************************)
DefaultMaxDepth == 10

\* ProjectStructureAnalyzer.__init__: ignore_patterns or DEFAULT_IGNORE_PATTERNS
\* (the argument is None, or <<patterns>> for a set of patterns)
InitIgnorePatterns(arg) ==
    IF arg = None THEN DEFAULT_IGNORE_PATTERNS
    ELSE IF arg[1] = {} THEN DEFAULT_IGNORE_PATTERNS ELSE arg[1]

_should_ignore_mutant(patterns, path) ==
    LET name == PathName(path)
    IN  \/ name \in patterns
        \/ \E pattern \in patterns :
               \/ StartsWith(pattern, <<"*">>) /\ EndsWith(name, Tail(pattern))

\* ProjectStructureAnalyzer._should_ignore
_should_ignore(patterns, path) ==
    LET name == PathName(path)
    IN  \/ name \in patterns
        \/ \E pattern \in patterns :
               \/ StartsWith(pattern, <<"*">>) /\ EndsWith(name, Tail(pattern))
               \/ /\ EndsWith(pattern, <<"*">>)
                  /\ StartsWith(name, SubSeq(pattern, 1, Len(pattern) - 1))

\* ProjectStructureAnalyzer._analyze_file: the FileNode, as to_dict shows it
_analyze_file(f, file_path) ==
    LET extension == lower(suffix(PathName(file_path)))
    IN  [name |-> PathName(file_path),
         size |-> f.entries[file_path].size,
         extension |-> extension,
         language |-> LANGUAGE_MAP_get(extension)]

\* DirectoryNode(name=dir_path.name, path=dir_path), as to_dict shows it
DirectoryNode(dir_path) ==
    [name |-> PathName(dir_path), path |-> dir_path, files |-> <<>>,
     directories |-> EmptyMap]

\* d[k] = d.get(k, 0) + 1
DictInc(d, k) == DictSet(d, k, (IF k \in DOMAIN d THEN d[k] ELSE 0) + 1)

UpdateStatistics_mutant(st, file_node) ==
    [total_files |-> st.total_files + 1,
     total_size |-> st.total_size + file_node.size,
     file_types |-> DictInc(st.file_types, file_node.extension),
     language_stats |-> DictInc(st.language_stats, file_node.language)]

\* The statistics update of _analyze_directory for one file node.
UpdateStatistics(st, file_node) ==
    [total_files |-> st.total_files + 1,
     total_size |-> st.total_size + file_node.size,
     file_types |-> DictInc(st.file_types, file_node.extension),
     language_stats |-> IF file_node.language # NoLanguage
                        THEN DictInc(st.language_stats, file_node.language)
                        ELSE st.language_stats]

RECURSIVE _analyze_directory(_, _, _, _, _)
RECURSIVE _analyze_items(_, _, _, _, _, _)

_analyze_directory_mutant(f, self, dir_path, depth, st) ==
    IF iterdir_raises(f, dir_path)
    THEN [node |-> DirectoryNode(dir_path), st |-> st]
    ELSE _analyze_items(f, self, iterdir(f, dir_path), depth, 1,
                        [node |-> DirectoryNode(dir_path), st |-> st])

\* ProjectStructureAnalyzer._analyze_directory: the node, and the analyzer's
\* statistics after it (st are the statistics before it).  A PermissionError
\* of iterdir is caught and the node returned as it is.
_analyze_directory(f, self, dir_path, depth, st) ==
    IF depth > self.max_depth
    THEN [node |-> DirectoryNode(dir_path), st |-> st]
    ELSE IF iterdir_raises(f, dir_path)
    THEN [node |-> DirectoryNode(dir_path), st |-> st]
    ELSE _analyze_items(f, self, iterdir(f, dir_path), depth, 1,
                        [node |-> DirectoryNode(dir_path), st |-> st])

\* The loop of _analyze_directory over the listed items, from the k-th on.
_analyze_items(f, self, items, depth, k, acc) ==
    IF k > Len(items) THEN acc
    ELSE LET item == items[k]
         IN  _analyze_items(f, self, items, depth, k + 1,
                 IF _should_ignore(self.ignore_patterns, item) THEN acc
                 ELSE IF is_file(f, item)
                 THEN LET file_node == _analyze_file(f, item)
                      IN  [node |-> [acc.node EXCEPT !.files = Append(@, file_node)],
                           st |-> UpdateStatistics(acc.st, file_node)]
                 ELSE IF is_dir(f, item)
                 THEN LET sub == _analyze_directory(f, self, item, depth + 1, acc.st)
                      IN  [node |-> [acc.node EXCEPT !.directories =
                                        DictSet(@, sub.node.name, sub.node)],
                           st |-> sub.st]
                 ELSE acc)

\* root_path.rglob("*"): every directory from root_path down, parents first,
\* and for each its entries as listed; a directory that cannot be listed is
\* passed over.
RECURSIVE rglob(_, _)
RECURSIVE rglob_dirs(_, _, _)
rglob(f, dir_path) ==
    IF iterdir_raises(f, dir_path) THEN <<>>
    ELSE iterdir(f, dir_path) \o rglob_dirs(f, iterdir(f, dir_path), 1)

rglob_dirs(f, items, k) ==
    IF k > Len(items) THEN <<>>
    ELSE (IF is_dir(f, items[k]) THEN rglob(f, items[k]) ELSE <<>>)
         \o rglob_dirs(f, items, k + 1)

\* round(size / (1024 * 1024), 2), in hundredths
size_mb(size) == ((size * 100 * 2) \div (1024 * 1024) + 1) \div 2

\* The loop of _find_largest_files that fills files_with_size.
files_with_size(f, patterns, root_path) ==
    LET found == SelectSeq(rglob(f, root_path),
                           LAMBDA path : is_file(f, path) /\ ~_should_ignore(patterns, path))
    IN  [i \in DOMAIN found |->
            [path |-> SubSeq(found[i], Len(root_path) + 1, Len(found[i])),
             size |-> f.entries[found[i]].size,
             size_mb |-> size_mb(f.entries[found[i]].size)]]

RECURSIVE sort_insert_mutant(_, _)
sort_insert_mutant(sorted, x) ==
    IF sorted = <<>> THEN <<x>>
    ELSE IF Head(sorted).size > x.size
         THEN <<Head(sorted)>> \o sort_insert_mutant(Tail(sorted), x)
         ELSE <<x>> \o sorted

\* list.sort(key=size, reverse=True) is stable: an item goes behind every item
\* that is at least as large.
RECURSIVE sort_insert(_, _)
sort_insert(sorted, x) ==
    IF sorted = <<>> THEN <<x>>
    ELSE IF Head(sorted).size >= x.size
         THEN <<Head(sorted)>> \o sort_insert(Tail(sorted), x)
         ELSE <<x>> \o sorted

RECURSIVE sort_by_size(_, _, _)
sort_by_size(items, k, sorted) ==
    IF k > Len(items) THEN sorted
    ELSE sort_by_size(items, k + 1, sort_insert(sorted, items[k]))

\* list[:n]
SliceTo(items, n) ==
    IF n >= 0
    THEN SubSeq(items, 1, IF n < Len(items) THEN n ELSE Len(items))
    ELSE SubSeq(items, 1, IF Len(items) + n > 0 THEN Len(items) + n ELSE 0)

\* ProjectStructureAnalyzer._find_largest_files
_find_largest_files(f, patterns, root_path, n) ==
    SliceTo(sort_by_size(files_with_size(f, patterns, root_path), 1, <<>>), n)

\* The dict objects of the analyzer: a result holds self.file_types and
\* self.language_stats themselves, not copies of them.
FileTypesRef == [ref |-> "self.file_types"]

LanguageStatsRef == [ref |-> "self.language_stats"]

analyze_raises_mutant(f, project_path) ==
    IF ~Exists(f, project_path) THEN "ValueError: Project path does not exist"
    ELSE "no"

\* ProjectStructureAnalyzer.analyze: no such directory.
analyze_raises(f, project_path) ==
    IF ~Exists(f, project_path) THEN "ValueError: Project path does not exist"
    ELSE IF ~is_dir(f, project_path) THEN "ValueError: Project path is not a directory"
    ELSE "no"

\* ProjectStructureAnalyzer.analyze, after the checks of the path: the analyzer's
\* statistics afterwards and the dict it returns.
analyze_structure(f, self, project_path) ==
    LET reset == [total_files |-> 0, total_size |-> 0, file_types |-> EmptyMap,
                  language_stats |-> EmptyMap]
        root == _analyze_directory(f, self, project_path, 0, reset)
    IN  [st |-> root.st,
         return |->
            [root |-> root.node,
             statistics |->
                [total_files |-> root.st.total_files,
                 total_size |-> root.st.total_size,
                 file_types |-> FileTypesRef,
                 language_stats |-> LanguageStatsRef,
                 largest_files |->
                     _find_largest_files(f, self.ignore_patterns, project_path, 10)]]]

(***************************************************************************)
(* The projects the structure analyzer is run on: a chain of directories   *)
(* sub, sub/sub, ... of at most MaxFsDepth levels below the top, a.py at   *)
(* any level, and at the top possibly x.log, B.PY and a .git directory     *)
(* (empty, or holding a file).                                             *)
(***************************************************************************)
git == <<".", "g", "i", "t">>

sub == <<"s", "u", "b">>

a_py == <<"a", ".", "p", "y">>

B_PY == <<"B", ".", "P", "Y">>

x_log == <<"x", ".", "l", "o", "g">>

NameOrder == <<git, B_PY, a_py, sub, x_log>>

Reverse(s) == [i \in DOMAIN s |-> s[Len(s) + 1 - i]]

Sizes == {10, 500, 1000}

Absent == "absent"

DirEntry == [kind |-> "dir", size |-> 0]

FileEntry(size) == [kind |-> "file", size |-> size]

\* sub/sub/.../sub, j levels below the top
SubPath(j) == [i \in 1..j |-> sub]

EntriesOf(k, a_sizes, with_log, with_B, git_dir) ==
    LET pairs ==
            {<<SubPath(j), DirEntry>> : j \in 0..k}
            \cup {<<Append(SubPath(j), a_py), FileEntry(a_sizes[j][1])>> :
                     j \in {i \in 0..k : a_sizes[i] # <<>>}}
            \cup (IF with_log THEN {<<<<x_log>>, FileEntry(1000)>>} ELSE {})
            \cup (IF with_B THEN {<<<<B_PY>>, FileEntry(10)>>} ELSE {})
            \cup (IF git_dir # Absent THEN {<<<<git>>, DirEntry>>} ELSE {})
            \cup (IF git_dir = "full" THEN {<<<<git, a_py>>, FileEntry(1000)>>} ELSE {})
    IN  [path \in {pair[1] : pair \in pairs} |->
            (CHOOSE pair \in pairs : pair[1] = path)[2]]

\* The sizes of a.py at the levels 0..k (<<>>: no a.py at that level).
ASizes(k, top_sizes, deep_sizes) ==
    {[j \in 0..k |-> IF j = 0 THEN top ELSE deep[j]] :
        top \in {<<>>} \cup {<<size>> : size \in top_sizes},
        deep \in [1..k -> {<<>>} \cup {<<size>> : size \in deep_sizes}]}

\* The projects whose a.py has a size of top_sizes at the top and of deep_sizes
\* below it, and where at most one directory, at one of denied_levels below
\* the top, cannot be listed.
FileSystems(top_sizes, deep_sizes, denied_levels) ==
    UNION {{[entries |-> EntriesOf(k, a_sizes, with_log, with_B, git_dir),
             order |-> order, denied |-> denied] :
                a_sizes \in ASizes(k, top_sizes, deep_sizes),
                with_log \in BOOLEAN, with_B \in BOOLEAN,
                git_dir \in {Absent, "empty", "full"},
                order \in {NameOrder, Reverse(NameOrder)},
                denied \in {{}} \cup {{SubPath(j)} : j \in (1..k) \cap denied_levels}} :
           k \in 0..MaxFsDepth}

\* The ignore_patterns a caller constructs the analyzer with.
IgnoreArgs == {None, <<{}>>, <<{<<"a", "*">>}>>}

\* The max_depth a caller constructs the analyzer with.
MaxDepths == 0..(MaxFsDepth - 1) \cup {DefaultMaxDepth}

\* The directories a caller asks for.
ProjectPaths == {<<>>, <<sub>>, <<a_py>>}

NoResult == [root |-> "None"]

NoStructReturn == [status |-> "none"]

NoLargest == [called |-> FALSE]

\* ProjectStructureAnalyzer.__init__
StructInit(arg, depth) ==
    /\ ignore_arg = arg
    /\ ignore_patterns = InitIgnorePatterns(arg)
    /\ max_depth = depth
    /\ total_files = 0
    /\ total_size = 0
    /\ file_types = EmptyMap
    /\ language_stats = EmptyMap
    /\ results = [first |-> NoResult, latest |-> NoResult]
    /\ structReturn = NoStructReturn
    /\ largestReturn = NoLargest

StructIdle ==
    /\ structFS = [entries |-> EntriesOf(0, [j \in {0} |-> <<>>], FALSE, FALSE, Absent),
                   order |-> NameOrder, denied |-> {}]
    /\ StructInit(None, DefaultMaxDepth)

(***************************************************************************)
(* AnalyzerFactory (src/analyzers/analyzer_factory.py).  An analyzer is    *)
(* the PythonAnalyzer, or an analyzer of the caller whose can_analyze      *)
(* accepts some set of paths.                                              *)
(***************************************************************************)
SUPPORTED_EXTENSIONS == {<<".", "p", "y">>, <<".", "p", "y", "w">>}

\* An instance of PythonAnalyzer.
PythonAnalyzer(id) == [class |-> "PythonAnalyzer", id |-> id, accepts |-> {}]

\* An instance of an analyzer class of the caller.
OtherAnalyzer(id, accepts) == [class |-> "Other", id |-> id, accepts |-> accepts]

\* analyzer.can_analyze(file_path); for PythonAnalyzer:
\* file_path.suffix.lower() in self.SUPPORTED_EXTENSIONS
can_analyze(analyzer, file_path) ==
    IF analyzer.class = "PythonAnalyzer"
    THEN lower(suffix(PathName(file_path))) \in SUPPORTED_EXTENSIONS
    ELSE file_path \in analyzer.accepts

NoAnalyzer == [class |-> "None", id |-> 0, accepts |-> {}]

get_analyzer_mutant(analyzers, file_path) ==
    LET hits == {i \in DOMAIN analyzers : can_analyze(analyzers[i], file_path)}
    IN  IF hits = {} THEN NoAnalyzer
        ELSE analyzers[CHOOSE i \in hits : \A j \in hits : j <= i]

\* AnalyzerFactory.get_analyzer: the loop over self._analyzers from the k-th on
RECURSIVE get_analyzer_from(_, _, _)
get_analyzer_from(analyzers, file_path, k) ==
    IF k > Len(analyzers) THEN NoAnalyzer
    ELSE IF can_analyze(analyzers[k], file_path) THEN analyzers[k]
    ELSE get_analyzer_from(analyzers, file_path, k + 1)

\* AnalyzerFactory.get_analyzer
get_analyzer(analyzers, file_path) == get_analyzer_from(analyzers, file_path, 1)

\* AnalyzerFactory.__init__
FactoryInit ==
    /\ _analyzers = <<PythonAnalyzer(1)>>
    /\ factoryReturn = [status |-> "none"]

(***************************************************************************)
(* The files analyze is run on.  What ast.parse makes of a text is the     *)
(* parser's business: a file carries its decoded text (for the line count) *)
(* and, separately, the parser's verdict on it: a SyntaxError or a tree.   *)
(***************************************************************************)
NoSyntaxError == [msg |-> "", lineno |-> 0, offset |-> 0]

SyntaxErrors ==
    {[msg |-> "invalid syntax", lineno |-> 1, offset |-> 2],
     [msg |-> "unexpected EOF while parsing", lineno |-> 2, offset |-> 1]}

FileSizes == {0, max_file_size_bytes, max_file_size_bytes + 1}

Texts == SeqsUpTo(TextChars, MaxTextLen)

File(exists, size, decodable, text, parses, err, tree) ==
    [exists |-> exists, size |-> size, encoding |-> "utf-8", decodable |-> decodable,
     text |-> text, parses |-> parses, syntax_error |-> err, tree |-> tree]

MissingFile == File(FALSE, 0, FALSE, <<>>, FALSE, NoSyntaxError, <<>>)

\* Valid files: every tree with a one-character text, every text with the
\* trees of at most one node (line counts and tree metrics do not interact).
\* A text that yields a node, or a syntax error, holds more than line ends.
\* text holds something the parser makes a node, or a syntax error, of: a
\* character that is neither a line end nor inside or at the start of a comment
HasCode(text) ==
    \E i \in DOMAIN text : text[i] = "x" /\ \A j \in 1..(i - 1) : text[j] # "#"

ValidFiles(trees) ==
    {File(TRUE, sz, TRUE, <<"x">>, TRUE, NoSyntaxError, t) :
        sz \in FileSizes, t \in trees}
    \cup
    {File(TRUE, sz, TRUE, txt, TRUE, NoSyntaxError, t) :
        sz \in FileSizes,
        <<txt, t>> \in {tt \in Texts \X {u \in trees : Len(u) <= 1} :
                           tt[2] # <<>> => HasCode(tt[1])}}

InvalidFiles ==
    {File(TRUE, sz, TRUE, txt, FALSE, e, <<>>) :
        sz \in FileSizes, txt \in {t \in Texts : HasCode(t)}, e \in SyntaxErrors}

UndecodableFiles ==
    {File(TRUE, sz, FALSE, <<>>, FALSE, NoSyntaxError, <<>>) : sz \in FileSizes}

PyFiles == {MissingFile} \cup UndecodableFiles \cup InvalidFiles
               \cup ValidFiles(TreesUpTo(NodeKinds, MaxAstNodes))

(***************************************************************************)
(* Specification SpecPy: one file, analysed by PythonAnalyzer.analyze.     *)
(***************************************************************************)
\* The module names a set of dependencies is made of.
PyModuleNames == {"numpy", "os", "requests"}

PyIdle ==
    /\ pyFile = MissingFile
    /\ pyResult = Idle
    /\ pyPrev = Idle
    /\ pyOps = <<>>

WalkIdle ==
    /\ walkTree = <<>>
    /\ walkVisitor = VisitorInit
    /\ walkPos = 1

InitPy ==
    /\ pyFile \in PyFiles
    /\ pyResult = Idle
    /\ pyPrev = Idle
    /\ pyOps = <<>>
    /\ GraphInit
    /\ DepIdle
    /\ StructIdle
    /\ FactoryInit
    /\ ResolveIdle /\ WalkIdle

\* analyzer.analyze(file_path), in a process in which sets of str iterate in
\* some order
Analyze ==
    /\ \E set_order \in Enumerations(PyModuleNames) :
           \E out \in {analyze(pyFile, set_order)} :
               /\ pyResult' = out.result
               /\ pyOps' = out.ops
    /\ pyPrev' = pyResult
    /\ UNCHANGED <<pyFile, graphVars, depVars, structVars, factoryVars, resolveVars, walkVars>>

NextPy == Analyze

SpecPy == InitPy /\ [][NextPy]_vars

(***************************************************************************)
(* Properties of PythonAnalyzer.analyze, checked under SpecPy.             *)
(***************************************************************************)
Analyzed == pyResult.status # "idle"

WithinCeiling(f) == f.exists /\ f.size <= max_file_size_bytes

KindsIn(tree) == {tree[j].kind : j \in DOMAIN tree}

\* The lines of a text that end at "\n" only (a last line needs no "\n").
RECURSIVE NewlineDelimited(_, _, _)
NewlineDelimited(content, i, cur) ==
    IF i > Len(content)
    THEN IF cur = <<>> THEN <<>> ELSE <<cur>>
    ELSE IF content[i] = "LF"
         THEN <<cur>> \o NewlineDelimited(content, i + 1, <<>>)
         ELSE NewlineDelimited(content, i + 1, Append(cur, content[i]))

\* C1: a file larger than the ceiling makes analyze raise the "File too large"
\* ValueError, and by then the call has neither sampled, read nor parsed the
\* content: the only step taken is the stat of the size check.
C1_OversizedRejectedBeforeRead ==
    (Analyzed /\ pyFile.exists /\ pyFile.size > max_file_size_bytes) =>
        /\ pyResult.status = "raised"
        /\ pyResult.error = "ValueError: File too large"
        /\ Range(pyOps) \cap {"detect_encoding", "read_text", "parse", "visit"} = {}

C1_Witness ==
    /\ Analyzed
    /\ pyFile.exists
    /\ pyFile.size = max_file_size_bytes + 1
    /\ pyFile.text # <<>>
    /\ pyResult.status = "raised"

C8_LineCountIsNewlineDelimited ==
    (Analyzed /\ WithinCeiling(pyFile) /\ pyFile.decodable /\ pyFile.parses) =>
        pyResult.file_info.line_count = Len(NewlineDelimited(pyFile.text, 1, <<>>))

NoBranchLoopHandler(tree) ==
    KindsIn(tree) \cap {"If", "While", "For", "AsyncFor", "ExceptHandler"} = {}

\* C9 as stated: a valid file without conditional branch, loop and exception
\* handler has whole-file cyclomatic complexity 1 and complexity 1 in every
\* function record.
C9_FloorAsStated ==
    (Analyzed /\ WithinCeiling(pyFile) /\ pyFile.decodable /\ pyFile.parses
        /\ NoBranchLoopHandler(pyFile.tree)) =>
        /\ pyResult.complexity_metrics.cyclomatic_complexity = 1
        /\ \A k \in DOMAIN pyResult.functions : pyResult.functions[k].complexity = 1

\* C9 as amended: in a valid file without conditional branch, loop and
\* exception handler every function record has complexity 1, and the whole-file
\* complexity is 1 when the file has no boolean operation and no with statement
\* either.
C9_FloorAmended ==
    (Analyzed /\ WithinCeiling(pyFile) /\ pyFile.decodable /\ pyFile.parses
        /\ NoBranchLoopHandler(pyFile.tree)) =>
        /\ (KindsIn(pyFile.tree) \cap {"With", "BoolOp"} = {}) =>
               pyResult.complexity_metrics.cyclomatic_complexity = 1
        /\ Len(pyResult.functions) =
               Cardinality({j \in DOMAIN pyFile.tree :
                               pyFile.tree[j].kind \in {"FunctionDef", "AsyncFunctionDef"}})
        /\ \A k \in DOMAIN pyResult.functions : pyResult.functions[k].complexity = 1

C9_Witness ==
    /\ pyResult.status = "returned"
    /\ pyFile.parses
    /\ NoBranchLoopHandler(pyFile.tree)
    /\ KindsIn(pyFile.tree) = {"FunctionDef", "AsyncWith"}
    /\ Len(pyResult.functions) = 1
    /\ pyResult.complexity_metrics.cyclomatic_complexity = 1

\* C16: invoking analyze twice on an unchanged file yields structurally
\* identical results: the same function, class and import records in the same
\* order, the same dependencies and the same complexity numbers.
C16_AnalyzeTwiceSameResult ==
    (pyPrev.status = "returned" /\ pyResult.status = "returned") =>
        /\ pyResult.functions = pyPrev.functions
        /\ pyResult.classes = pyPrev.classes
        /\ pyResult.imports = pyPrev.imports
        /\ pyResult.dependencies = pyPrev.dependencies
        /\ pyResult.complexity_metrics = pyPrev.complexity_metrics
        /\ pyResult.file_info = pyPrev.file_info
        /\ pyResult.errors = pyPrev.errors

\* C16 witness: analyze has returned twice for a file with a function and
\* imports that give two dependencies.
C16_Witness ==
    /\ pyPrev.status = "returned"
    /\ pyResult.status = "returned"
    /\ Len(pyResult.dependencies) = 2
    /\ Len(pyResult.imports) = 2
    /\ pyResult.functions # <<>>

\* The first dotted segments of the modules a tree imports absolutely.
AbsolutelyImported(tree) ==
    UNION {{tree[j].imp.names[k][1] : k \in DOMAIN tree[j].imp.names} :
              j \in {i \in DOMAIN tree : tree[i].kind = "Import"}}
    \cup {tree[j].imp.module[1] :
              j \in {i \in DOMAIN tree : /\ tree[i].kind = "ImportFrom"
                                          /\ tree[i].imp.level = 0
                                          /\ tree[i].imp.module # <<>>}}

\* C30: the dependencies of an analyze result hold only first dotted segments
\* of absolutely imported modules that are not standard-library modules; a
\* relative import (level >= 1) never adds a name.
C30_DependenciesFromAbsoluteImports ==
    (pyResult.status = "returned" /\ pyFile.parses) =>
        Range(pyResult.dependencies) \subseteq
            (AbsolutelyImported(pyFile.tree) \ StdlibModules)

\* C18: for every syntactically valid file the whole-file cyclomatic complexity
\* equals 1 plus the number of conditional branches, loops (asynchronous loops
\* included) and exception-handler clauses, plus (operands - 1) for every
\* boolean operation, plus the number of items of every with statement (async
\* with included), counted over the entire tree.
C18_WholeFileComplexity ==
    (pyResult.status = "returned" /\ pyFile.parses) =>
        LET tree == pyFile.tree
        IN  pyResult.complexity_metrics.cyclomatic_complexity =
                1 + Cardinality({j \in DOMAIN tree : tree[j].kind = "If"})
                  + Cardinality({j \in DOMAIN tree :
                                    tree[j].kind \in {"While", "For", "AsyncFor"}})
                  + Cardinality({j \in DOMAIN tree : tree[j].kind = "ExceptHandler"})
                  + SumSeq([j \in DOMAIN tree |->
                               IF tree[j].kind = "BoolOp" THEN tree[j].n - 1 ELSE 0])
                  + SumSeq([j \in DOMAIN tree |->
                               IF tree[j].kind \in {"With", "AsyncWith"}
                               THEN tree[j].n ELSE 0])

\* The lines of a text that are comments.
CommentLines(text) ==
    LET lines == splitlines(text, 1, <<>>)
    IN  {k \in DOMAIN lines : lines[k] # <<>> /\ lines[k][1] = "#"}

\* C19: after a successful analyze, complexity_metrics.lines_of_code equals the
\* number of lines of the decoded file text and complexity_metrics.comment_lines
\* equals the number of comment lines in that text.
C19_LineCountsFromText ==
    (pyResult.status = "returned" /\ pyFile.parses) =>
        /\ pyResult.complexity_metrics.lines_of_code = _count_lines(pyFile.text)
        /\ pyResult.complexity_metrics.comment_lines
               = Cardinality(CommentLines(pyFile.text))

(***************************************************************************)
(* Specification SpecGraph: a DependencyMapper, its graph built by         *)
(* add_dependency and queried by find_circular_dependencies.               *)
(***************************************************************************)
InitGraph == PyIdle /\ GraphInit /\ DepIdle /\ StructIdle /\ FactoryInit /\ ResolveIdle /\ WalkIdle

NextGraph ==
    \/ \E from_file, to_file \in Nodes : add_dependency(from_file, to_file)
    \/ FindCircularDependencies

SpecGraph == InitGraph /\ [][NextGraph]_vars

\* C4: when the graph holds a->b and b->a, find_circular_dependencies returns
\* a list in which some cycle contains both a and b.
C4_MutualImportReported ==
    \A a, b \in Nodes :
        (/\ graphReturn.status # "none"
         /\ <<a, b>> \in Edges(dependency_graph)
         /\ <<b, a>> \in Edges(dependency_graph)) =>
            /\ graphReturn.status = "returned"
            /\ \E k \in DOMAIN graphReturn.cycles :
                   {a, b} \subseteq Range(graphReturn.cycles[k])

\* C17: find_circular_dependencies appends a cycle only when the neighbour
\* examined lies on the current depth-first path: every reported cycle starts and
\* ends with the same node, names no other node twice (it is a stretch of one
\* path, closed by the neighbour), and each consecutive pair of its nodes is an
\* edge of the dependency graph.
C17_ReportedCyclesAreCycles ==
    graphReturn.status = "returned" =>
        \A k \in DOMAIN graphReturn.cycles :
            LET cycle == graphReturn.cycles[k]
            IN  /\ Len(cycle) >= 2
                /\ cycle[1] = cycle[Len(cycle)]
                /\ \A i, j \in 1..(Len(cycle) - 1) : i # j => cycle[i] # cycle[j]
                /\ \A i \in 1..(Len(cycle) - 1) :
                       <<cycle[i], cycle[i + 1]>> \in Edges(dependency_graph)

\* C17 witness: a cycle through three nodes has been reported.
C17_Witness ==
    /\ graphReturn.status = "returned"
    /\ \E k \in DOMAIN graphReturn.cycles : Len(graphReturn.cycles[k]) = 4

\* The nodes that can be reached from the nodes S along at most k edges of E.
RECURSIVE ReachableWithin(_, _, _)
ReachableWithin(E, S, k) ==
    IF k = 0 THEN S
    ELSE ReachableWithin(E, S \cup {e[2] : e \in {x \in E : x[1] \in S}}, k - 1)

\* The graph has a directed cycle: some node is reached from its successors.
HasDirectedCycle(E) ==
    \E e \in E : e[1] \in ReachableWithin(E, {e[2]}, Cardinality(E))

\* C26: for every finite dependency graph find_circular_dependencies returns a
\* list without raising, and the list is empty whenever the graph has no
\* directed cycle, also when a node is reachable along two different paths
\* (a->b, a->c, c->b).
C26_ReturnsAndEmptyWhenAcyclic ==
    graphReturn.status # "none" =>
        /\ graphReturn.status = "returned"
        /\ ~HasDirectedCycle(Edges(dependency_graph)) => graphReturn.cycles = <<>>

(***************************************************************************)
(* Specification SpecDep: one PythonDependencyMapper on one project;       *)
(* map_dependencies is called with lists of the project's files.           *)
(***************************************************************************)
InitDep ==
    /\ PyIdle
    /\ GraphInit
    /\ depFS \in Projects(PyPaths, 1, MaxStmts)
    /\ MapperInit
    /\ StructIdle
    /\ FactoryInit
    /\ ResolveIdle /\ WalkIdle

\* The file lists a caller passes: the project's listing, or a part of it.
Listing == PyPaths \o <<Notes>>

RECURSIVE SubLists(_)
SubLists(q) ==
    IF q = <<>> THEN {<<>>}
    ELSE LET rest == SubLists(Tail(q))
         IN  rest \cup {<<Head(q)>> \o r : r \in rest}

FileLists == SubLists(Listing)

MapDependencies(files) ==
    \E out \in {map_dependencies([module_paths |-> module_paths,
                                  dependencies |-> dependencies,
                                  imports |-> imports, ops |-> <<>>], depFS, files)} :
        /\ module_paths' = out.state.module_paths
        /\ dependencies' = out.state.dependencies
        /\ imports' = out.state.imports
        /\ mapReturn' = out.return
        /\ mapOps' = [files |-> files, log |-> out.state.ops]
        /\ UNCHANGED <<depFS, pyVars, graphVars, structVars, factoryVars, resolveVars, walkVars>>

NextDep == \E files \in FileLists : MapDependencies(files)

SpecDep == InitDep /\ [][NextDep]_vars

\* C3: with pkg/a.py holding just "from . import b" and pkg/b.py in the file
\* list, the dependencies returned for pkg.a include pkg.b.
C3_RelativeSiblingImportResolved ==
    (/\ mapReturn.called
     /\ depFS[PkgA] = [parses |-> TRUE,
                       stmts |-> <<[ImportFromStmt(1, None, <<"b">>) EXCEPT !.line = 1]>>]
     /\ <<"pkg", "a">> \in DOMAIN mapReturn.dependencies
     /\ <<"pkg", "b">> \in DOMAIN mapReturn.module_paths) =>
        <<"pkg", "b">> \in mapReturn.dependencies[<<"pkg", "a">>]

\* The module names of the .py files of a file list.
ModulesOf(files) ==
    {_path_to_module(files[k]) : k \in {i \in DOMAIN files : files[i].suffix = ".py"}}

\* C11: a map_dependencies call returns a result determined only by its own file
\* list: the module_paths, dependencies and imports it returns hold no entry
\* carried over from an earlier call on the same mapper.
C11_NoEntryCarriedOver ==
    mapReturn.called =>
        /\ DOMAIN mapReturn.module_paths \subseteq ModulesOf(mapOps.files)
        /\ DOMAIN mapReturn.dependencies \subseteq ModulesOf(mapOps.files)
        /\ DOMAIN mapReturn.imports \subseteq ModulesOf(mapOps.files)

\* The imports listed in the result of the latest call.
ReturnedImports ==
    UNION {Range(mapReturn.imports[k]) : k \in DOMAIN mapReturn.imports}

\* An absolute import name resolves against the index K: it is a key, a dotted
\* prefix of a key, or has a dotted prefix that is a key.
DottedPrefixes(m) == {SubSeq(m, 1, i) : i \in 1..Len(m)}

IsDottedPrefixOf(m, k) == Len(k) > Len(m) /\ m \in DottedPrefixes(k)

ResolvesAgainst(m, K) ==
    \/ \E k \in K : IsDottedPrefixOf(m, k)
    \/ DottedPrefixes(m) \cap K # {}

\* The packages of the unresolved absolute imports of the result, the
\* standard library left out.
UnresolvedPackages ==
    {i.module[1] : i \in
        {j \in ReturnedImports :
            /\ ~j.is_relative
            /\ ~ResolvesAgainst(j.module, DOMAIN mapReturn.module_paths)}}
    \ StdlibModules

\* C22: the external_dependencies list returned by map_dependencies is exactly
\* the sorted, duplicate-free list of the first dotted segments of the absolute
\* imports that do not resolve against the module index, standard-library
\* names removed; relative imports never contribute to it.
C22_ExternalDependenciesList ==
    mapReturn.called =>
        LET ext == mapReturn.external_dependencies
        IN  /\ Range(ext) = UnresolvedPackages
            /\ \A a, b \in DOMAIN ext : a < b => StrRank(ext[a]) < StrRank(ext[b])

\* C22 witness: a file with "import requests.x, numpy, requests" was mapped
\* and the list is numpy, requests.
C22_Witness ==
    /\ mapReturn.called
    /\ \E i \in ReturnedImports : i.module = <<"requests", "x">>
    /\ mapReturn.external_dependencies = <<"numpy", "requests">>

\* C28: with pkg/__init__.py holding just "from .a import x" and pkg/a.py in
\* the file list, the result of map_dependencies has the dependency edge from
\* pkg to pkg.a.
C28_PackageMarkerSiblingImport ==
    (/\ mapReturn.called
     /\ depFS[PkgInit] = [parses |-> TRUE,
                          stmts |-> <<[ImportFromStmt(1, <<"a">>, <<"x">>) EXCEPT !.line = 1]>>]
     /\ PkgInit \in Range(mapOps.files)
     /\ PkgA \in Range(mapOps.files)) =>
        /\ <<"pkg">> \in DOMAIN mapReturn.dependencies
        /\ <<"pkg", "a">> \in mapReturn.dependencies[<<"pkg">>]

\* C29: the external_dependencies list returned by map_dependencies never holds
\* a name that is the first dotted segment of a module of the module-name index.
C29_InternalPackageNotExternal ==
    mapReturn.called =>
        \A k \in DOMAIN mapReturn.external_dependencies :
            \A m \in DOMAIN mapReturn.module_paths :
                m[1] # mapReturn.external_dependencies[k]

\* The steps of the latest call that resolve an import.
ResolveSteps == {k \in DOMAIN mapOps.log : mapOps.log[k].op = "_resolve_import"}

\* The steps of the latest call that modify the module-name index.
IndexSteps == {k \in DOMAIN mapOps.log : mapOps.log[k].op = "module_paths"}

\* C12: in map_dependencies no import of any file is resolved before the
\* module-name index holds an entry for every .py file of the input list, and
\* the index is not modified once the second pass has started.
C12_IndexCompleteBeforeResolution ==
    /\ \A k \in ResolveSteps :
           ModulesOf(mapOps.files) \subseteq DOMAIN mapOps.log[k].module_paths
    /\ \A k \in ResolveSteps, j \in IndexSteps : j < k

\* C12 witness: a call on at least two .py files has resolved an import of the
\* first of them.
C12_Witness ==
    /\ mapReturn.called
    /\ Cardinality(ModulesOf(mapOps.files)) >= 2
    /\ \E k \in ResolveSteps : mapOps.log[k].file = mapOps.files[1]

(***************************************************************************)
(* Specification SpecStruct: one ProjectStructureAnalyzer, constructed     *)
(* with some ignore_patterns and max_depth, is asked to analyze            *)
(* directories of one project, again and again.                            *)
(***************************************************************************)
InitStruct ==
    /\ PyIdle /\ GraphInit /\ DepIdle /\ FactoryInit /\ ResolveIdle /\ WalkIdle
    /\ structFS \in FileSystems({10}, {500}, 1..MaxFsDepth)
    /\ \E arg \in IgnoreArgs, depth \in MaxDepths : StructInit(arg, depth)

\* analyzer.analyze(project_path)
AnalyzeStructure(project_path) ==
    /\ IF analyze_raises(structFS, project_path) # "no"
       THEN /\ structReturn' = [status |-> "raised", project_path |-> project_path,
                                message |-> analyze_raises(structFS, project_path)]
            /\ UNCHANGED <<total_files, total_size, file_types, language_stats, results>>
       ELSE \E out \in {analyze_structure(structFS,
                            [max_depth |-> max_depth, ignore_patterns |-> ignore_patterns],
                            project_path)} :
               /\ total_files' = out.st.total_files
               /\ total_size' = out.st.total_size
               /\ file_types' = out.st.file_types
               /\ language_stats' = out.st.language_stats
               /\ results' = [first |-> IF results.first = NoResult THEN out.return
                                        ELSE results.first,
                              latest |-> out.return]
               /\ structReturn' = [status |-> "returned", project_path |-> project_path]
    /\ UNCHANGED <<structFS, max_depth, ignore_patterns, ignore_arg, largestReturn>>
    /\ UNCHANGED <<pyVars, graphVars, depVars, factoryVars, resolveVars, walkVars>>

NextStruct == \E project_path \in ProjectPaths : AnalyzeStructure(project_path)

SpecStruct == InitStruct /\ [][NextStruct]_vars

(***************************************************************************)
(* What the claims about analyze speak of.                                 *)
(***************************************************************************)
\* name matches an ignore pattern of the analyzer: the exact name, *suffix
\* or prefix*
MatchesIgnorePattern(name) ==
    \E pattern \in ignore_patterns :
        \/ pattern = name
        \/ \E rest \in {SubSeq(name, i, Len(name)) : i \in 1..(Len(name) + 1)} :
               pattern = <<"*">> \o rest
        \/ \E rest \in {SubSeq(name, 1, i) : i \in 0..Len(name)} :
               pattern = rest \o <<"*">>

\* path lies below root
Below(root, path) == Len(path) > Len(root) /\ SubSeq(path, 1, Len(root)) = root

\* path, below root, is an ignored entry or lies beneath an ignored directory
IgnoredBelow(root, path) ==
    \E i \in (Len(root) + 1)..Len(path) : MatchesIgnorePattern(path[i])

\* The directory nodes of a returned tree.
RECURSIVE TreeNodes(_)
TreeNodes(node) ==
    {node} \cup UNION {TreeNodes(node.directories[name]) : name \in DOMAIN node.directories}

\* The paths of the files of a returned tree.
TreeFilePaths(tree) ==
    UNION {{Append(node.path, node.files[i].name) : i \in DOMAIN node.files} :
           node \in TreeNodes(tree)}

RECURSIVE SumSizes(_)
SumSizes(paths) ==
    IF paths = {} THEN 0
    ELSE LET path == CHOOSE x \in paths : TRUE
         IN  structFS.entries[path].size + SumSizes(paths \ {path})

ExtensionOf(path) == lower(suffix(Last(path)))

LanguageOf(path) == LANGUAGE_MAP_get(ExtensionOf(path))

\* How many of the paths have each key.
Tally(paths, Key(_)) ==
    [key \in {Key(path) : path \in paths} |->
        Cardinality({path \in paths : Key(path) = key})]

Returned == structReturn.status = "returned"

\* The statistics count the files of the returned tree, and nothing else.
StatisticsCountTree(tree) ==
    LET paths == TreeFilePaths(tree)
    IN  /\ total_files = Cardinality(paths)
        /\ total_size = SumSizes(paths)
        /\ file_types = Tally(paths, ExtensionOf)
        /\ language_stats =
               Tally({path \in paths : LanguageOf(path) # NoLanguage}, LanguageOf)
        /\ results.latest.statistics.total_files = total_files
        /\ results.latest.statistics.total_size = total_size

\* The root holds one ignored subdirectory and two regular files.
OneIgnoredDirTwoFiles(root) ==
    LET children == {path \in DOMAIN structFS.entries :
                        Below(root, path) /\ Len(path) = Len(root) + 1}
    IN  /\ Cardinality(children) = 3
        /\ Cardinality({path \in children : is_file(structFS, path)
                                            /\ ~MatchesIgnorePattern(Last(path))}) = 2
        /\ \E path \in children : is_dir(structFS, path) /\ MatchesIgnorePattern(Last(path))

\* C5: analyze never places in the returned tree, and never counts in
\* total_files, total_size, file_types or language_stats, an entry whose name
\* matches an ignore pattern (exact name, *suffix or prefix*) nor a file beneath
\* an ignored directory: no node and no file of the tree is ignored below the
\* root, and the statistics count the files of the tree only.  A root holding one
\* ignored subdirectory and two regular files gives total_files = 2.
C5_IgnoredEntriesNotCounted ==
    Returned =>
        LET root == structReturn.project_path
            tree == results.latest.root
        IN  /\ \A node \in TreeNodes(tree) : ~IgnoredBelow(root, node.path)
            /\ \A path \in TreeFilePaths(tree) :
                   is_file(structFS, path) /\ ~IgnoredBelow(root, path)
            /\ StatisticsCountTree(tree)
            /\ OneIgnoredDirTwoFiles(root) => total_files = 2

\* C5 witness: analyze has returned for a root that holds two regular files and
\* one ignored directory, which itself holds a file.
C5_Witness ==
    /\ Returned
    /\ OneIgnoredDirTwoFiles(structReturn.project_path)
    /\ \E path \in DOMAIN structFS.entries :
           /\ is_file(structFS, path)
           /\ Len(path) = Len(structReturn.project_path) + 2
           /\ MatchesIgnorePattern(path[Len(path) - 1])
           /\ ~MatchesIgnorePattern(Last(path))

\* path, below root, lies beneath a directory that cannot be listed
BeneathDenied(root, path) ==
    \E i \in Len(root)..(Len(path) - 1) : SubSeq(path, 1, i) \in structFS.denied

\* The directories below root that no ignore pattern and no unreadable
\* directory hides.
DirsBelow(root) ==
    {path \in DOMAIN structFS.entries :
        /\ is_dir(structFS, path)
        /\ Below(root, path)
        /\ ~IgnoredBelow(root, path)
        /\ ~BeneathDenied(root, path)}

\* path is in the tree as a node with no files and no child directories
EmptyNodeAt(tree, path) ==
    \E node \in TreeNodes(tree) :
        node.path = path /\ node.files = <<>> /\ DOMAIN node.directories = {}

\* No file beneath a directory deeper than max_depth is in the tree or counted.
NothingCountedBelowCeiling(root, tree) ==
    /\ \A path \in TreeFilePaths(tree) : Len(path) - Len(root) - 1 <= max_depth
    /\ total_files = Cardinality(TreeFilePaths(tree))
    /\ total_size = SumSizes(TreeFilePaths(tree))

\* analyze raises for its path only, never for the depth of the tree
RaisesForPathOnly ==
    structReturn.status = "raised" => ~is_dir(structFS, structReturn.project_path)

\* C7 as stated: analyze does not fail because of nesting depth; every directory
\* at depth greater than max_depth (root at depth 0) appears in the tree as a
\* node with no files and no child directories, and no file beneath such a
\* directory is counted in total_files or total_size.
C7_EveryDeepDirectoryIsEmptyNode ==
    /\ RaisesForPathOnly
    /\ Returned =>
           LET root == structReturn.project_path
               tree == results.latest.root
           IN  /\ \A path \in DirsBelow(root) :
                      Len(path) - Len(root) > max_depth => EmptyNodeAt(tree, path)
               /\ NothingCountedBelowCeiling(root, tree)

\* C7 amended: analyze does not fail because of nesting depth; every directory
\* at depth exactly max_depth + 1 that the walk reaches appears in the tree as
\* a node with no files and no child directories, no directory deeper than that
\* appears in the tree at all, and no file beneath a directory deeper than
\* max_depth is counted in total_files or total_size.
C7_CutoffDirectoryIsEmptyNode ==
    /\ RaisesForPathOnly
    /\ Returned =>
           LET root == structReturn.project_path
               tree == results.latest.root
           IN  /\ \A path \in DirsBelow(root) :
                      Len(path) - Len(root) = max_depth + 1 => EmptyNodeAt(tree, path)
               /\ \A node \in TreeNodes(tree) :
                      Len(node.path) - Len(root) <= max_depth + 1
               /\ NothingCountedBelowCeiling(root, tree)

\* C7 witness: analyze has returned for a root below which a directory at depth
\* max_depth + 1 holds a file.
C7_Witness ==
    /\ Returned
    /\ \E path \in DirsBelow(structReturn.project_path) :
           /\ Len(path) - Len(structReturn.project_path) = max_depth + 1
           /\ is_file(structFS, Append(path, a_py))
           /\ ~MatchesIgnorePattern(a_py)

\* A result as its holder reads it: statistics.file_types and
\* statistics.language_stats are the analyzer's dict objects.
ResultAsRead(result, the_file_types, the_language_stats) ==
    IF result = NoResult THEN result
    ELSE [result EXCEPT !.statistics.file_types = the_file_types,
                        !.statistics.language_stats = the_language_stats]

\* C10: a result returned by analyze is a snapshot: a later analyze call on the
\* same analyzer leaves every field of the earlier result unchanged, including
\* statistics.file_types and statistics.language_stats.
C10_EarlierResultUnchanged ==
    [][results.first # NoResult =>
          ResultAsRead(results'.first, file_types', language_stats')
              = ResultAsRead(results.first, file_types, language_stats)]_vars

\* name matches a pattern of the given set: the exact name, *suffix or prefix*
MatchesPatternOf(patterns, name) ==
    \E pattern \in patterns :
        \/ pattern = name
        \/ \E rest \in {SubSeq(name, i, Len(name)) : i \in 1..(Len(name) + 1)} :
               pattern = <<"*">> \o rest
        \/ \E rest \in {SubSeq(name, 1, i) : i \in 0..Len(name)} :
               pattern = rest \o <<"*">>

\* The entries directly in root.
ChildrenOf(root) ==
    {path \in DOMAIN structFS.entries : Below(root, path) /\ Len(path) = Len(root) + 1}

\* path is in the tree, as a directory node or as a file
InTree(tree, path) ==
    \/ \E node \in TreeNodes(tree) : node.path = path
    \/ path \in TreeFilePaths(tree)

\* C14: for every ignore_patterns set a caller supplies, the empty set included,
\* exactly that set is used in place of the default patterns during analyze:
\* it is the analyzer's pattern set, and an entry of the root is left out of the
\* returned tree exactly if its name matches a pattern of the supplied set.
C14_SuppliedPatternsUsed ==
    ignore_arg # None =>
        /\ ignore_patterns = ignore_arg[1]
        /\ Returned =>
               \A path \in ChildrenOf(structReturn.project_path) :
                   InTree(results.latest.root, path)
                       <=> ~MatchesPatternOf(ignore_arg[1], Last(path))

\* C15: analyze fails with the invalid-path error when the root does not exist
\* or is not a directory, and it does so before any traversal and before the
\* counters total_files, total_size, file_types and language_stats are reset or
\* changed: a call that raises leaves them, and the results handed out, as
\* they were.
C15_InvalidPathRaisesBeforeReset ==
    /\ [](structReturn.status # "none" =>
             IF is_dir(structFS, structReturn.project_path)
             THEN structReturn.status = "returned"
             ELSE /\ structReturn.status = "raised"
                  /\ structReturn.message =
                         IF Exists(structFS, structReturn.project_path)
                         THEN "ValueError: Project path is not a directory"
                         ELSE "ValueError: Project path does not exist")
    /\ [][structReturn'.status = "raised" =>
              UNCHANGED <<total_files, total_size, file_types, language_stats, results>>]_vars

\* C15 witness: analyze has raised for a path that is a file, on an analyzer
\* whose counters hold what an earlier analyze counted.
C15_Witness ==
    /\ structReturn.status = "raised"
    /\ is_file(structFS, structReturn.project_path)
    /\ total_files > 0
    /\ DOMAIN file_types # {}

\* The file nodes of a returned tree, each with the directory node and the
\* position in its files list that hold it.
TreeFileNodes(tree) ==
    UNION {{[dir |-> node.path, index |-> i, file |-> node.files[i]] :
               i \in DOMAIN node.files} :
           node \in TreeNodes(tree)}

RECURSIVE SumNodeSizes(_)
SumNodeSizes(nodes) ==
    IF nodes = {} THEN 0
    ELSE LET n == CHOOSE x \in nodes : TRUE
         IN  n.file.size + SumNodeSizes(nodes \ {n})

RECURSIVE SumCounts(_, _)
SumCounts(counts, keys) ==
    IF keys = {} THEN 0
    ELSE LET k == CHOOSE x \in keys : TRUE
         IN  counts[k] + SumCounts(counts, keys \ {k})

\* C23: in every result of analyze, total_files is the number of file nodes of
\* the returned tree, total_size the sum of their sizes, the counts of
\* file_types sum to total_files with file_types[e] the number of file nodes
\* with extension e, and language_stats[l] is the number of file nodes whose
\* language is l.
C23_StatisticsMatchTree ==
    Returned =>
        LET result == ResultAsRead(results.latest, file_types, language_stats)
            stats == result.statistics
            nodes == TreeFileNodes(result.root)
        IN  /\ stats.total_files = Cardinality(nodes)
            /\ stats.total_size = SumNodeSizes(nodes)
            /\ SumCounts(stats.file_types, DOMAIN stats.file_types) = stats.total_files
            /\ DOMAIN stats.file_types = {n.file.extension : n \in nodes}
            /\ \A e \in DOMAIN stats.file_types :
                   stats.file_types[e] = Cardinality({n \in nodes : n.file.extension = e})
            /\ DOMAIN stats.language_stats =
                   {n.file.language : n \in nodes} \ {NoLanguage}
            /\ \A l \in DOMAIN stats.language_stats :
                   stats.language_stats[l] = Cardinality({n \in nodes : n.file.language = l})

\* C23 witness: analyze has returned a tree with file nodes of two extensions,
\* one of them with no language, beside a child directory node.
C23_Witness ==
    /\ Returned
    /\ LET nodes == TreeFileNodes(results.latest.root)
       IN  /\ Cardinality({n.file.extension : n \in nodes}) = 2
           /\ \E n \in nodes : n.file.language = NoLanguage
           /\ \E n \in nodes : n.file.language # NoLanguage
    /\ DOMAIN results.latest.root.directories # {}

\* The entries below root that the walk comes to: not ignored, not beneath
\* a directory that cannot be listed, and not beyond the depth limit.
WalkedBelow(root) ==
    {path \in DOMAIN structFS.entries :
        /\ Below(root, path)
        /\ ~IgnoredBelow(root, path)
        /\ ~BeneathDenied(root, path)
        /\ Len(path) - Len(root) <= max_depth + 1}

\* The directories on the walk from root whose listing raises PermissionError.
DeniedOnWalk(root) ==
    {path \in structFS.denied :
        (path = root \/ path \in WalkedBelow(root)) /\ Len(path) - Len(root) <= max_depth}

\* C24: when listing a directory raises a permission error during the walk,
\* analyze does not fail: that directory is in the tree as a node with no files
\* and no child directories, and the tree and the statistics for the rest of
\* the project are produced as usual (every other entry the walk comes to is in
\* the tree, and the statistics count the files of the tree).
C24_PermissionErrorIsEmptySubtree ==
    /\ (structReturn.status # "none" /\ is_dir(structFS, structReturn.project_path))
           => Returned
    /\ Returned =>
           LET root == structReturn.project_path
               tree == results.latest.root
           IN  /\ \A path \in DeniedOnWalk(root) : EmptyNodeAt(tree, path)
               /\ \A path \in WalkedBelow(root) : InTree(tree, path)
               /\ \A path \in TreeFilePaths(tree) : ~BeneathDenied(root, path)
               /\ StatisticsCountTree(tree)

\* C24 witness: analyze has returned for a root with a file of its own and,
\* below it, a directory that cannot be listed and holds a file.
C24_Witness ==
    /\ Returned
    /\ total_files > 0
    /\ \E path \in DeniedOnWalk(structReturn.project_path) :
           /\ path # structReturn.project_path
           /\ is_file(structFS, Append(path, a_py))
           /\ ~MatchesIgnorePattern(a_py)

\* C27: every entry of statistics.largest_files is a file node of the tree
\* returned by the same analyze call; in particular no file beneath an ignored
\* directory (such as .git) is in largest_files.
C27_LargestFilesAreTreeFiles ==
    Returned =>
        LET root == structReturn.project_path
            largest == results.latest.statistics.largest_files
        IN  \A k \in DOMAIN largest :
                /\ (root \o largest[k].path) \in TreeFilePaths(results.latest.root)
                /\ ~IgnoredBelow(root, root \o largest[k].path)

(***************************************************************************)
(* Specification SpecLargest: _find_largest_files on its own, for any n.   *)
(***************************************************************************)
InitLargest ==
    /\ PyIdle /\ GraphInit /\ DepIdle /\ FactoryInit /\ ResolveIdle /\ WalkIdle
    /\ structFS \in FileSystems(Sizes, Sizes, {})
    /\ \E arg \in IgnoreArgs : StructInit(arg, DefaultMaxDepth)

\* analyzer._find_largest_files(root_path, n)
FindLargestFiles(root_path, n) ==
    /\ is_dir(structFS, root_path)
    /\ largestReturn' =
           [called |-> TRUE, root_path |-> root_path, n |-> n,
            files |-> _find_largest_files(structFS, ignore_patterns, root_path, n)]
    /\ UNCHANGED <<structFS, max_depth, ignore_patterns, ignore_arg, total_files, total_size,
                   file_types, language_stats, results, structReturn>>
    /\ UNCHANGED <<pyVars, graphVars, depVars, factoryVars, resolveVars, walkVars>>

NextLargest ==
    \E root_path \in {<<>>, <<sub>>}, n \in 0..MaxN : FindLargestFiles(root_path, n)

SpecLargest == InitLargest /\ [][NextLargest]_vars

\* The files _find_largest_files is to choose from: the files below root_path
\* whose own name matches no ignore pattern.
Eligible(root_path) ==
    {path \in DOMAIN structFS.entries :
        is_file(structFS, path) /\ Below(root_path, path)
        /\ ~MatchesIgnorePattern(Last(path))}

\* C6: _find_largest_files(root, n) returns min(n, number of eligible files)
\* entries ordered by byte size descending, with files of equal size kept in
\* discovery order, and every returned file is at least as large as every
\* eligible file that is not returned; sizes 10, 1000, 500 with n = 2 give the
\* 1000-byte then the 500-byte file.
C6_LargestFilesFirst ==
    largestReturn.called =>
        LET root == largestReturn.root_path
            n == largestReturn.n
            files == largestReturn.files
            eligible == Eligible(root)
            discovered == rglob(structFS, root)
            full(i) == root \o files[i].path
        IN  /\ Len(files) = IF n < Cardinality(eligible) THEN n ELSE Cardinality(eligible)
            /\ \A i \in DOMAIN files :
                   /\ full(i) \in eligible
                   /\ files[i].size = structFS.entries[full(i)].size
                   /\ \A path \in eligible \ {full(j) : j \in DOMAIN files} :
                          files[i].size >= structFS.entries[path].size
            /\ \A i, j \in DOMAIN files :
                   i < j =>
                       /\ files[i].size >= files[j].size
                       /\ files[i].size = files[j].size =>
                              Index(discovered, full(i)) < Index(discovered, full(j))
            /\ ( /\ n = 2
                 /\ Cardinality(eligible) = 3
                 /\ {structFS.entries[path].size : path \in eligible} = {10, 500, 1000} )
               => /\ files[1].size = 1000
                  /\ files[2].size = 500

\* C6 witness: _find_largest_files has returned two of more than two eligible
\* files, two of which have the same size.
C6_Witness ==
    /\ largestReturn.called
    /\ largestReturn.n = 2
    /\ Len(largestReturn.files) = 2
    /\ largestReturn.files[1].size = largestReturn.files[2].size
    /\ Cardinality(Eligible(largestReturn.root_path)) > 2

(***************************************************************************)
(* Specification SpecFactory: analyzers are registered with one            *)
(* AnalyzerFactory and looked up for paths.                                *)
(***************************************************************************)
c_pyw == <<"c", ".", "p", "y", "w">>

\* The paths analyzers are looked up for.
FactoryPaths == {<<a_py>>, <<B_PY>>, <<sub, c_pyw>>, <<x_log>>, <<sub>>}

\* The analyzers a caller registers: another PythonAnalyzer, one for logs, and
\* one that accepts every path.
Registrable ==
    {PythonAnalyzer(2), OtherAnalyzer(3, {<<x_log>>}), OtherAnalyzer(4, FactoryPaths)}

InitFactory == PyIdle /\ GraphInit /\ DepIdle /\ StructIdle /\ FactoryInit /\ ResolveIdle /\ WalkIdle

\* factory.register_analyzer(analyzer)
register_analyzer(analyzer) ==
    /\ Len(_analyzers) <= MaxAnalyzers
    /\ _analyzers' = Append(_analyzers, analyzer)
    /\ factoryReturn' = [status |-> "none"]
    /\ UNCHANGED <<pyVars, graphVars, depVars, structVars, resolveVars, walkVars>>

\* factory.get_analyzer(file_path)
GetAnalyzer(file_path) ==
    /\ factoryReturn' = [status |-> "returned", file_path |-> file_path,
                         analyzer |-> get_analyzer(_analyzers, file_path)]
    /\ UNCHANGED <<_analyzers, pyVars, graphVars, depVars, structVars, resolveVars, walkVars>>

NextFactory ==
    \/ \E analyzer \in Registrable : register_analyzer(analyzer)
    \/ \E file_path \in FactoryPaths : GetAnalyzer(file_path)

SpecFactory == InitFactory /\ [][NextFactory]_vars

\* The positions of the registered analyzers that accept a path.
Accepting(analyzers, file_path) ==
    {i \in DOMAIN analyzers : can_analyze(analyzers[i], file_path)}

\* C13: get_analyzer(path) returns the earliest-registered analyzer whose
\* can_analyze(path) is true, and returns none without raising when no
\* registered analyzer accepts the path; registering a further analyzer never
\* changes the result for a path that an already registered analyzer accepts.
C13_EarliestRegisteredWins ==
    /\ [](factoryReturn.status = "returned" =>
            LET hits == Accepting(_analyzers, factoryReturn.file_path)
            IN  IF hits = {} THEN factoryReturn.analyzer = NoAnalyzer
                ELSE \E i \in hits :
                        /\ \A j \in hits : i <= j
                        /\ factoryReturn.analyzer = _analyzers[i])
    /\ [][\A file_path \in FactoryPaths :
            Accepting(_analyzers, file_path) # {} =>
                get_analyzer(_analyzers', file_path) = get_analyzer(_analyzers, file_path)]_vars

\* C13 witness: with an analyzer that accepts every path registered after the
\* PythonAnalyzer, get_analyzer has returned the PythonAnalyzer for a path that
\* both accept.
C13_Witness ==
    /\ factoryReturn.status = "returned"
    /\ Cardinality(Accepting(_analyzers, factoryReturn.file_path)) >= 2
    /\ factoryReturn.analyzer = PythonAnalyzer(1)
    /\ \E i \in DOMAIN _analyzers : _analyzers[i].class = "Other"

(***************************************************************************)
(* Specification SpecResolve: _resolve_import is called once, for a        *)
(* relative import (some level, some module path, from some file) or for   *)
(* an absolute import against some module index.                           *)
(***************************************************************************)
\* The importing files: packages and modules at several depths below
\* project_root, and a file outside it.
ImportingFiles ==
    {Path(<<>>, "__init__", ".py", TRUE),
     Path(<<>>, "top", ".py", TRUE),
     PkgInit, PkgA,
     Path(<<"pkg", "sub">>, "__init__", ".py", TRUE),
     Path(<<"pkg", "sub">>, "c", ".py", TRUE),
     Path(<<"elsewhere">>, "d", ".py", FALSE)}

\* The module paths of "from <dots><module> import ...": none, b, b.x
ImportedModules == {EmptyStr, <<"b">>, <<"b", "x">>}

\* The names an absolute import can carry, and the module names the index
\* can hold ("" is the module name of an __init__.py in project_root).
AbsoluteModules ==
    {<<"a">>, <<"a", "b">>, <<"a", "b", "c">>, <<"a", "b", "c", "d">>,
     <<"a", "x">>, <<"b">>}

KnownModules == {EmptyStr, <<"a">>, <<"a", "b">>, <<"a", "b", "c">>, <<"b", "x">>}

\* self.module_paths with the keys K: each module is indexed under its file
ModulePathsOf(K) ==
    [k \in K |-> Path(SubSeq(k, 1, Len(k) - 1), Last(k), ".py", TRUE)]

InitResolve ==
    /\ PyIdle /\ GraphInit /\ DepIdle /\ StructIdle /\ FactoryInit /\ WalkIdle
    /\ resolveArgs \in
           [module_paths : {EmptyMap}, module_name : ImportedModules,
            from_file : ImportingFiles, is_relative : {TRUE}, level : 1..MaxLevel]
           \cup
           [module_paths : {ModulePathsOf(K) : K \in SUBSET KnownModules},
            module_name : AbsoluteModules, from_file : {PkgInit},
            is_relative : {FALSE}, level : {0}]
    /\ resolveReturn = [called |-> FALSE, resolved |-> None]

\* mapper._resolve_import(module_name, from_file, is_relative, level)
ResolveImport ==
    /\ ~resolveReturn.called
    /\ resolveReturn' =
           [called |-> TRUE,
            resolved |-> _resolve_import(resolveArgs.module_paths, resolveArgs.module_name,
                                         resolveArgs.from_file, resolveArgs.is_relative,
                                         resolveArgs.level)]
    /\ UNCHANGED <<resolveArgs, pyVars, graphVars, depVars, structVars, factoryVars, walkVars>>

NextResolve == ResolveImport

SpecResolve == InitResolve /\ [][NextResolve]_vars

\* C20: _resolve_import for a relative import of level L >= 1 from a file whose
\* module name has n dot-separated segments returns none when L > n; otherwise
\* it returns the first n - L segments of that module name followed by the
\* imported module path (only those segments when the module path is empty).
C20_RelativeImportStripsLevels ==
    (resolveReturn.called /\ resolveArgs.is_relative) =>
        LET segments == Split(_path_to_module(resolveArgs.from_file))
            n == Len(segments)
            L == resolveArgs.level
            kept == [i \in 1..(n - L) |-> segments[i]]
        IN  IF L > n THEN resolveReturn.resolved = None
            ELSE resolveReturn.resolved =
                     IF resolveArgs.module_name = EmptyStr
                     THEN (IF kept = <<>> THEN EmptyStr ELSE kept)
                     ELSE kept \o resolveArgs.module_name

\* C20 witness: a level-2 import of a module path from a module three segments
\* deep has been resolved, and so has one whose level is the number of segments.
C20_Witness ==
    /\ resolveReturn.called
    /\ resolveArgs.is_relative
    /\ resolveArgs.level = 2
    /\ Len(Split(_path_to_module(resolveArgs.from_file))) = 3
    /\ resolveArgs.module_name = <<"b", "x">>
    /\ resolveReturn.resolved = <<"pkg", "b", "x">>

\* C21: _resolve_import for an absolute import name m returns m when m is a
\* known module or a dotted prefix of a known module; otherwise it returns the
\* longest dotted prefix of m that is a known module; otherwise none.
C21_AbsoluteImportResolution ==
    (resolveReturn.called /\ ~resolveArgs.is_relative) =>
        LET m == resolveArgs.module_name
            K == DOMAIN resolveArgs.module_paths
            knownPrefixes == DottedPrefixes(m) \cap K
        IN  IF m \in K \/ \E k \in K : IsDottedPrefixOf(m, k)
            THEN resolveReturn.resolved = m
            ELSE IF knownPrefixes # {}
            THEN /\ resolveReturn.resolved \in knownPrefixes
                 /\ \A q \in knownPrefixes : Len(q) <= Len(resolveReturn.resolved)
            ELSE resolveReturn.resolved = None

\* C21 witness: a.b.c.d was resolved against an index that holds a and a.b
\* and nothing below a.b: the longer prefix a.b is returned.
C21_Witness ==
    /\ resolveReturn.called
    /\ ~resolveArgs.is_relative
    /\ resolveArgs.module_name = <<"a", "b", "c", "d">>
    /\ DOMAIN resolveArgs.module_paths = {<<"a">>, <<"a", "b">>}
    /\ resolveReturn.resolved = <<"a", "b">>

(***************************************************************************)
(* Specification SpecWalk: a PythonASTVisitor walks a tree of classes,     *)
(* functions and if statements node by node.  A class is named after its   *)
(* position in the tree, so that distinct classes have distinct names.     *)
(***************************************************************************)
MaxWalkNodes == 4

WalkKinds == {"ClassDef", "FunctionDef", "AsyncFunctionDef", "If"}

ClassNames == <<"A", "B", "C", "D", "E", "F">>

WalkTrees ==
    {[i \in DOMAIN t |-> IF t[i].kind = "ClassDef"
                         THEN [t[i] EXCEPT !.name = ClassNames[i]] ELSE t[i]] :
        t \in TreesUpTo(WalkKinds, MaxWalkNodes)}

InitWalk ==
    /\ PyIdle /\ GraphInit /\ DepIdle /\ StructIdle /\ FactoryInit /\ ResolveIdle
    /\ walkTree \in WalkTrees
    /\ walkVisitor = VisitorInit
    /\ walkPos = 1

\* visitor.visit(node) for the next node of the tree, and the return of every
\* visit_ClassDef whose class body ends with it
VisitNode ==
    /\ walkPos <= Len(walkTree)
    /\ walkVisitor' = LeaveClasses(walkTree, visit_node(walkTree, walkVisitor, walkPos),
                                   IF walkPos = Len(walkTree) THEN 0 ELSE walkPos + 1)
    /\ walkPos' = walkPos + 1
    /\ UNCHANGED <<walkTree, pyVars, graphVars, depVars, structVars, factoryVars,
                   resolveVars>>

NextWalk == VisitNode

SpecWalk == InitWalk /\ [][NextWalk]_vars

\* The name of the innermost class that lexically encloses node i (NoClass
\* when no class does; i = Len + 1 stands for the end of the module).
InnermostClass(tree, i) ==
    IF i > Len(tree) THEN NoClass
    ELSE LET enclosing == {j \in Ancestors(tree, i) : tree[j].kind = "ClassDef"}
         IN  IF enclosing = {} THEN NoClass
             ELSE tree[CHOOSE j \in enclosing : \A k \in enclosing : k <= j].name

\* The function definitions visited so far, in source order.
VisitedFunctions ==
    SelectSeq([i \in 1..(walkPos - 1) |-> i],
              LAMBDA i : walkTree[i].kind \in {"FunctionDef", "AsyncFunctionDef"})

\* C25: during the walk every function record's parent_class is the name of the
\* innermost class that lexically encloses the function, or none; on leaving a
\* class body the previous context is restored, so that the context is always
\* the innermost class around what is visited next, and none when the walk ends.
C25_ParentClassIsInnermostClass ==
    /\ Len(walkVisitor.functions) = Len(VisitedFunctions)
    /\ \A k \in DOMAIN VisitedFunctions :
           walkVisitor.functions[k].parent_class
               = InnermostClass(walkTree, VisitedFunctions[k])
    /\ walkVisitor.current_class = InnermostClass(walkTree, walkPos)

\* C25 witness: the walk has ended on a tree where class A holds class B and,
\* after B, a function, and where a function follows after A has closed.
C25_Witness ==
    /\ walkPos = Len(walkTree) + 1
    /\ Len(walkTree) = 4
    /\ walkTree[1].kind = "ClassDef"
    /\ walkTree[2].kind = "ClassDef" /\ walkTree[2].parent = 1
    /\ walkTree[3].kind = "FunctionDef" /\ walkTree[3].parent = 1
    /\ walkTree[4].kind = "AsyncFunctionDef" /\ walkTree[4].parent = 0
    /\ walkVisitor.functions[1].parent_class = "A"
    /\ walkVisitor.functions[2].parent_class = NoClass

====
